---- MODULE Spec2Model ----
(***************************************************************************)
(* Lima (mmichie/lima): the Beancount ledger indexer, its lazy loader and  *)
(* transaction cache (internal/beancount), and the categorizer's pattern   *)
(* matcher (internal/categorizer).                                         *)
(*                                                                         *)
(* A ledger file is a sequence of bytes.  Bytes are abstract tokens (one   *)
(* token stands for one lexical unit of the ledger syntax: a date, a flag, *)
(* a quoted string, an account name ...), except the line terminators      *)
(* "CR" and "LF", which are the real bytes 0x0D and 0x0A.                  *)
(***************************************************************************)
EXTENDS Integers, Sequences, FiniteSets, TLC

VARIABLES
    ledger,         \* the files on disk: clean path -> sequence of lines [text, term]
    path,           \* File.path, the path given to Open
    phase,          \* "closed", "indexing", "open" (Open returned f), "failed" (Open returned an error)
    stack,          \* the activation records of processFile, innermost last
    includedFiles,  \* buildIndex's includedFiles set (absolute paths)
    index,          \* File.index: [transactions, accounts, commodities]
    cache,          \* File.cache.transactions: ordinal -> Transaction
    ret,            \* what the last GetTransaction call returned
    returned,       \* history: every <<ordinal, Transaction>> returned without error
    scans,          \* history: the absolute paths whose scan loop was started, in order
    skips,          \* history: the absolute paths skipped as already included
    heap,           \* the Pattern objects, by pointer
    pm,             \* the PatternMatcher: [patterns, EarlyExitThreshold, MaxAlternatives]
    pmRet,          \* what the last call on the matcher returned
    txArg,          \* the transaction handed to the matching calls: <<>> for nil, <<t>>
    matchRet,       \* what the last Matches, Match or MatchAll call returned
    cat,            \* the Categorizer: [config, matcher (is there one), patterns]
    disk,           \* the patterns file: [exists, version, patterns (its entries), writes]
    cRet,           \* what the last call on the Categorizer returned
    loader,         \* the Loader: [config]
    loadRet,        \* what the last call on the Loader returned
    threads,        \* the goroutines calling into one object: goroutine -> its call and position
    mu,             \* Categorizer.mu, the sync.RWMutex: [writer, readers, pending (blocked in Lock)]
    serialized      \* do the callers of the File serialize their calls

ledgerVars == <<ledger, path, phase, stack, includedFiles, index, cache, ret, returned, scans, skips>>

matcherVars == <<heap, pm, pmRet>>

matchVars == <<txArg, matchRet>>

categorizerVars == <<cat, disk, cRet>>

loaderVars == <<loader, loadRet>>

threadVars == <<threads, mu, serialized>>

vars == <<ledgerVars, matcherVars, matchVars, categorizerVars, loaderVars, threadVars>>

-----------------------------------------------------------------------------
(* Bounds of the model *)

\* the most lines of a ledger whose line terminators are drawn freely
MaxLines == 3
\* the most lines of an included file in the ledgers that include each other
MaxIncLines == 2
\* File.cache.maxSize.  The program constant is 100 (parser.go:53); the model
\* scales it down and sizes the largest ledger to maxSize + 2 transactions.
maxSize == 2
\* the number of Pattern objects
NumPatterns == 3
\* the most UpdateStatistics calls that find their pattern, over all patterns
MaxFeedback == 2

\* the longest patterns document
MaxEntries == 3

\* the most Pattern objects allocated
MaxObjects == 6

\* the most calls the goroutines make on one Categorizer
MaxCalls == 2

-----------------------------------------------------------------------------
(* Small helpers *)

Min(S) == CHOOSE x \in S : \A y \in S : x <= y

Range(s) == {s[i] : i \in 1..Len(s)}

Last(s) == s[Len(s)]

RECURSIVE Concat(_)
Concat(ss) == IF ss = <<>> THEN <<>> ELSE Head(ss) \o Concat(Tail(ss))

\* all sequences over S of length lo..hi
SeqsOf(S, lo, hi) == UNION {[1..n -> S] : n \in lo..hi}

-----------------------------------------------------------------------------
(* The byte alphabet *)

DateBytes == {"d1", "d2", "d9"}      \* text matching \d{4}-\d{2}-\d{2}; "d9" is no calendar date
ValidDates == {"d1", "d2"}
FlagBytes == {"*", "!"}
QuotedBytes == {"qa", "qb"}          \* a double-quoted string
TagBytes == {"#t"}
LinkBytes == {"^l"}
AccountBytes == {"Ac", "Ex"}         \* Assets:Checking, Expenses:Test
NumberBytes == {"n5", "n-5"}
CommodityBytes == {"USD"}
KeyBytes == {"k"}                    \* a metadata key followed by ':'
SpaceBytes == {"SP"}
PathBytes == {"m", "a", "b", "d", "z", ".", ".."}   \* one component of a path

-----------------------------------------------------------------------------
(* Files and paths *)

\* the bytes a line terminator puts into the file
TermBytes(term) ==
    CASE term = "LF" -> <<"LF">>
      [] term = "CRLF" -> <<"CR", "LF">>
      [] OTHER -> <<>>

\* the content of a file: its lines, each followed by its terminator
Encode(lines) == Concat([i \in 1..Len(lines) |-> lines[i].text \o TermBytes(lines[i].term)])

\* filepath.Clean on a relative path given as its components
RECURSIVE CleanAcc(_, _)
CleanAcc(acc, p) ==
    IF p = <<>> THEN acc
    ELSE IF Head(p) = "." THEN CleanAcc(acc, Tail(p))
    ELSE IF Head(p) = ".." /\ acc # <<>> /\ Last(acc) # ".."
         THEN CleanAcc(SubSeq(acc, 1, Len(acc) - 1), Tail(p))
    ELSE CleanAcc(Append(acc, Head(p)), Tail(p))

Clean(p) == CleanAcc(<<>>, p)

\* filepath.Abs: the working directory joined with the path, cleaned
Abs(p) == <<"/cwd">> \o Clean(p)

\* filepath.Dir
Dir(p) == IF Len(Clean(p)) <= 1 THEN <<".">> ELSE SubSeq(Clean(p), 1, Len(Clean(p)) - 1)

\* filepath.Join
Join(dir, p) == Clean(dir \o p)

\* os.Open succeeds
Exists(p) == Clean(p) \in DOMAIN ledger

\* the bytes os.Open(p) gives access to
FileBytes(p) == Encode(ledger[Clean(p)])

-----------------------------------------------------------------------------
(* bufio.Scanner with the default split function ScanLines *)

DropCR(tok) ==
    IF Len(tok) > 0 /\ Last(tok) = "CR" THEN SubSeq(tok, 1, Len(tok) - 1) ELSE tok

\* One Scan() of a scanner that has consumed off bytes of data: whether there is
\* a token, the token (scanner.Bytes()) and the number of bytes consumed.
ScanLines(data, off) ==
    IF off >= Len(data) THEN [ok |-> FALSE, token |-> <<>>, advance |-> 0]
    ELSE LET nl == {j \in (off + 1)..Len(data) : data[j] = "LF"}
         IN IF nl # {}
            THEN [ok |-> TRUE, token |-> DropCR(SubSeq(data, off + 1, Min(nl) - 1)),
                  advance |-> Min(nl) - off]
            ELSE [ok |-> TRUE, token |-> DropCR(SubSeq(data, off + 1, Len(data))),
                  advance |-> Len(data) - off]

-----------------------------------------------------------------------------
(* The line recognizer *)

\* transactionRegex.FindStringSubmatch(line) # nil
TransactionRegex(line) ==
    /\ Len(line) >= 3
    /\ line[1] \in DateBytes
    /\ line[2] \in FlagBytes
    /\ line[3] \in QuotedBytes

\* the submatches: date, flag, payee ("" when absent), narration, rest
TransactionMatches(line) ==
    IF Len(line) >= 4 /\ line[4] \in QuotedBytes
    THEN [date |-> line[1], flag |-> line[2], payee |-> line[3], narration |-> line[4],
          rest |-> SubSeq(line, 5, Len(line))]
    ELSE [date |-> line[1], flag |-> line[2], payee |-> "", narration |-> line[3],
          rest |-> SubSeq(line, 4, Len(line))]

\* time.Parse("2006-01-02", s) succeeds
TimeParse(d) == d \in ValidDates

\* The include directive.  includeRegex is not among the sources; the directive
\* names another file (spec, External Interfaces).
IncludeRegex(line) ==
    /\ Len(line) >= 2
    /\ line[1] = "include"
    /\ \A i \in 2..Len(line) : line[i] \in PathBytes

IncludeTarget(line) == Tail(line)

\* parseTransactionIndexLine: <<>> for nil, else <<the index entry>>
parseTransactionIndexLine(line, filePath, position, lineNumber) ==
    IF ~TransactionRegex(line) THEN <<>>
    ELSE LET m == TransactionMatches(line)
         IN IF ~TimeParse(m.date) THEN <<>>
            ELSE <<[Date |-> m.date,
                    Payee |-> IF m.payee = "" THEN m.narration ELSE m.payee,
                    FilePath |-> filePath,
                    FilePosition |-> position,
                    LineNumber |-> lineNumber]>>

extractTags(s) == SelectSeq(s, LAMBDA b : b \in TagBytes)

extractLinks(s) == SelectSeq(s, LAMBDA b : b \in LinkBytes)

\* extractAccountsAndCommodities
extractAccounts(line) == SelectSeq(line, LAMBDA b : b \in AccountBytes)

extractCommodities(line) == SelectSeq(line, LAMBDA b : b \in CommodityBytes)

\* appends the elements of new that are not yet in list, in order
RECURSIVE AppendUnique(_, _)
AppendUnique(list, new) ==
    IF new = <<>> THEN list
    ELSE IF Head(new) \in Range(list) THEN AppendUnique(list, Tail(new))
    ELSE AppendUnique(Append(list, Head(new)), Tail(new))

\* strings.TrimSpace(line) == ""
IsBlank(line) == \A i \in 1..Len(line) : line[i] \in SpaceBytes \cup {"CR"}

\* strings.HasPrefix(strings.TrimSpace(line), ";")
IsComment(line) ==
    \E i \in 1..Len(line) :
        /\ line[i] = ";"
        /\ \A j \in 1..(i - 1) : line[j] \in SpaceBytes \cup {"CR"}

\* metadataRegex
MetadataRegex(line) ==
    Len(line) >= 3 /\ line[1] \in SpaceBytes /\ line[2] \in KeyBytes

\* postingRegex
PostingRegex(line) ==
    Len(line) >= 2 /\ line[1] \in SpaceBytes /\ line[2] \in AccountBytes

\* parsePosting, for a line postingRegex matches
parsePosting(line) ==
    [Account |-> line[2],
     Amount |-> IF Len(line) >= 4 /\ line[3] \in NumberBytes /\ line[4] \in CommodityBytes
                THEN <<[Number |-> line[3], Commodity |-> line[4]]>>
                ELSE <<>>]

\* The loop of parseTransaction over the lines after the header: tx with the
\* postings and metadata read until a non-indented line or the end of input.
RECURSIVE parseBody(_, _, _)
parseBody(data, off, tx) ==
    LET s == ScanLines(data, off)
        line == s.token
    IN IF ~s.ok THEN tx
       ELSE IF IsBlank(line) \/ IsComment(line) THEN parseBody(data, off + s.advance, tx)
       ELSE IF line[1] \notin SpaceBytes THEN tx
       ELSE IF MetadataRegex(line)
            THEN parseBody(data, off + s.advance,
                           [tx EXCEPT !.Metadata = {kv \in @ : kv[1] # line[2]} \cup {<<line[2], line[3]>>}])
       ELSE IF PostingRegex(line)
            THEN parseBody(data, off + s.advance,
                           [tx EXCEPT !.Postings = Append(@, parsePosting(line))])
       ELSE parseBody(data, off + s.advance, tx)

\* parseTransaction on a scanner positioned at byte off of data
parseTransaction(data, off, startLine) ==
    LET s == ScanLines(data, off)
        line == s.token
    IN IF ~s.ok THEN [err |-> "unexpected end of file", tx |-> <<>>]
       ELSE IF ~TransactionRegex(line) THEN [err |-> "invalid transaction format", tx |-> <<>>]
       ELSE LET m == TransactionMatches(line)
            IN IF ~TimeParse(m.date) THEN [err |-> "invalid date", tx |-> <<>>]
               ELSE [err |-> "",
                     tx |-> <<parseBody(data, off + s.advance,
                                [Date |-> m.date, Flag |-> m.flag, Payee |-> m.payee,
                                 Narration |-> m.narration,
                                 Tags |-> extractTags(m.rest), Links |-> extractLinks(m.rest),
                                 Postings |-> <<>>, Metadata |-> {},
                                 FilePosition |-> 0, LineNumber |-> startLine])>>]

\* File.parseTransactionAt: open, seek, parse, and stamp the position
parseTransactionAt(filePath, position, lineNumber) ==
    IF ~Exists(filePath) THEN [err |-> "failed to open file", tx |-> <<>>]
    ELSE LET r == parseTransaction(FileBytes(filePath), position, lineNumber)
         IN IF r.err # "" THEN r
            ELSE [err |-> "",
                  tx |-> <<[r.tx[1] EXCEPT !.FilePosition = position, !.LineNumber = lineNumber]>>]

-----------------------------------------------------------------------------
(* The indexer: Open, buildIndex and the recursion of processFile *)

\* as IsIncluded, with the check of the visited set lost
IsIncludedNever(included, absPath) == FALSE

\* includedFiles[absPath]
IsIncluded(included, absPath) == absPath \in included

\* as IncludeKey, with the path as written instead of the absolute path
IncludeKeyAsWritten(filePath) == filePath

\* the key under which processFile remembers a file
IncludeKey(filePath) == Abs(filePath)

\* filepath.IsAbs
IsAbs(p) == p # <<>> /\ Head(p) = "/cwd"

\* the path processFile recurses into for an include directive
ResolveInclude(filePath, includePath) ==
    IF IsAbs(includePath) THEN includePath ELSE Join(Dir(filePath), includePath)

\* position += int64(len(scanner.Bytes()) + 1)
LineAdvance(token) == Len(token) + 1

\* the activation record of processFile(filePath) when its scan loop starts
NewFrame(filePath) ==
    [filePath |-> filePath, off |-> 0, position |-> 0, lineNumber |-> 0, line |-> <<>>]

\* the recursion never goes deeper than the number of files
MaxDepth == Cardinality(DOMAIN ledger) + 1

EmptyIndex == [transactions |-> <<>>, accounts |-> <<>>, commodities |-> <<>>]

\* Open: os.Open(path), the empty cache, buildIndex up to the first scan
Open ==
    /\ phase = "closed"
    /\ IF ~Exists(path)
       THEN /\ phase' = "failed"
            /\ UNCHANGED <<stack, includedFiles, index, scans>>
       ELSE /\ phase' = "indexing"
            /\ index' = EmptyIndex
            /\ includedFiles' = {IncludeKey(path)}
            /\ stack' = <<NewFrame(path)>>
            /\ scans' = <<Abs(path)>>
    /\ cache' = <<>>
    /\ UNCHANGED <<ledger, path, ret, returned, skips>>
    /\ UNCHANGED matcherVars
    /\ UNCHANGED matchVars
    /\ UNCHANGED categorizerVars
    /\ UNCHANGED loaderVars
    /\ UNCHANGED threadVars

\* what the scanner of the innermost processFile reads next
TopScan == ScanLines(FileBytes(Last(stack).filePath), Last(stack).off)

ReplaceTop(stk, frame) == [stk EXCEPT ![Len(stk)] = frame]

\* one iteration of the scan loop on a line that is no include directive
ProcessLine ==
    /\ phase = "indexing"
    /\ TopScan.ok
    /\ ~IncludeRegex(TopScan.token)
    /\ LET top == Last(stack)
           s == TopScan
           line == s.token
           lineNumber == top.lineNumber + 1
       IN /\ index' = [transactions |-> index.transactions \o
                            parseTransactionIndexLine(line, top.filePath, top.position, lineNumber),
                       accounts |-> AppendUnique(index.accounts, extractAccounts(line)),
                       commodities |-> AppendUnique(index.commodities, extractCommodities(line))]
          /\ stack' = ReplaceTop(stack, [top EXCEPT !.off = @ + s.advance,
                                                    !.position = @ + LineAdvance(line),
                                                    !.lineNumber = lineNumber,
                                                    !.line = line])
    /\ UNCHANGED <<ledger, path, phase, includedFiles, cache, ret, returned, scans, skips>>
    /\ UNCHANGED matcherVars
    /\ UNCHANGED matchVars
    /\ UNCHANGED categorizerVars
    /\ UNCHANGED loaderVars
    /\ UNCHANGED threadVars

\* one iteration of the scan loop on an include directive: the call of
\* processFile(includePath) up to its first scan, or all of it when it returns at once
ProcessInclude ==
    /\ phase = "indexing"
    /\ TopScan.ok
    /\ IncludeRegex(TopScan.token)
    /\ LET top == Last(stack)
           s == TopScan
           line == s.token
           includePath == ResolveInclude(top.filePath, IncludeTarget(line))
           caller == [top EXCEPT !.off = @ + s.advance, !.lineNumber = @ + 1, !.line = line]
       IN IF IsIncluded(includedFiles, IncludeKey(includePath))
          THEN \* already processed: the call returns nil, the loop continues
               /\ stack' = ReplaceTop(stack, [caller EXCEPT !.position = @ + LineAdvance(line)])
               /\ skips' = skips \cup {Abs(includePath)}
               /\ UNCHANGED <<phase, includedFiles, scans>>
          ELSE IF ~Exists(includePath)
          THEN \* os.Open fails: every processFile on the stack returns the error
               /\ phase' = "failed"
               /\ stack' = <<>>
               /\ includedFiles' = includedFiles \cup {IncludeKey(includePath)}
               /\ UNCHANGED <<scans, skips>>
          ELSE /\ Len(stack) < MaxDepth
               /\ stack' = Append(ReplaceTop(stack, caller), NewFrame(includePath))
               /\ includedFiles' = includedFiles \cup {IncludeKey(includePath)}
               /\ scans' = Append(scans, Abs(includePath))
               /\ UNCHANGED <<phase, skips>>
    /\ UNCHANGED <<ledger, path, index, cache, ret, returned>>
    /\ UNCHANGED matcherVars
    /\ UNCHANGED matchVars
    /\ UNCHANGED categorizerVars
    /\ UNCHANGED loaderVars
    /\ UNCHANGED threadVars

\* scanner.Scan() returns false: processFile returns nil to its caller, which
\* adds the include line to its position and continues; the outermost return
\* ends buildIndex and Open
FileEnd ==
    /\ phase = "indexing"
    /\ ~TopScan.ok
    /\ IF Len(stack) = 1
       THEN /\ phase' = "open"
            /\ stack' = <<>>
       ELSE LET caller == stack[Len(stack) - 1]
            IN /\ stack' = ReplaceTop(SubSeq(stack, 1, Len(stack) - 1),
                                      [caller EXCEPT !.position = @ + LineAdvance(caller.line)])
               /\ UNCHANGED phase
    /\ UNCHANGED <<ledger, path, includedFiles, index, cache, ret, returned, scans, skips>>
    /\ UNCHANGED matcherVars
    /\ UNCHANGED matchVars
    /\ UNCHANGED categorizerVars
    /\ UNCHANGED loaderVars
    /\ UNCHANGED threadVars

\* File.TransactionCount
TransactionCount == Len(index.transactions)

-----------------------------------------------------------------------------
(* The lazy loader and its cache *)

NoCall == [index |-> -2, err |-> "", tx |-> <<>>, hit |-> FALSE]

\* as CacheStore, keyed by the transaction's line number instead of its ordinal
CacheStoreByLine(c, idx, tx) ==
    [k \in (DOMAIN c) \cup {tx.LineNumber} |-> IF k = tx.LineNumber THEN tx ELSE c[k]]

\* f.cache.transactions[index] = tx
CacheStore(c, idx, tx) == [k \in (DOMAIN c) \cup {idx} |-> IF k = idx THEN tx ELSE c[k]]

\* as MinIdx, with the comparison reversed
MinIdxReversed(c, idx) == CHOOSE x \in (DOMAIN c) \cup {idx} : \A y \in (DOMAIN c) \cup {idx} : x >= y

\* the search for the smallest cached ordinal, starting from index
MinIdx(c, idx) == Min((DOMAIN c) \cup {idx})

\* as Evict, sparing the entry just stored
EvictUnlessNewest(c, idx) ==
    IF Cardinality(DOMAIN c) > maxSize /\ Min(DOMAIN c) # idx
    THEN [k \in (DOMAIN c) \ {Min(DOMAIN c)} |-> c[k]]
    ELSE c

\* delete(f.cache.transactions, minIdx) when the cache is over its capacity
Evict(c, idx) ==
    IF Cardinality(DOMAIN c) > maxSize
    THEN [k \in (DOMAIN c) \ {MinIdx(c, idx)} |-> c[k]]
    ELSE c

\* the zero Transaction
NilTx ==
    [Date |-> "", Flag |-> "", Payee |-> "", Narration |-> "", Tags |-> <<>>, Links |-> <<>>,
     Postings |-> <<>>, Metadata |-> {}, FilePosition |-> 0, LineNumber |-> 0]

\* as GetTransactionCall, storing into the cache before the error of the parse is checked
GetTransactionCallStoreFirst(c, idx) ==
    IF idx < 0 \/ idx >= Len(index.transactions)
    THEN [err |-> "index out of range", tx |-> <<>>, hit |-> FALSE, cache |-> c]
    ELSE IF idx \in DOMAIN c
    THEN [err |-> "", tx |-> <<c[idx]>>, hit |-> TRUE, cache |-> c]
    ELSE LET txIndex == index.transactions[idx + 1]
             r == parseTransactionAt(txIndex.FilePath, txIndex.FilePosition, txIndex.LineNumber)
             stored == [k \in (DOMAIN c) \cup {idx} |->
                           IF k = idx THEN (IF r.err # "" THEN NilTx ELSE r.tx[1]) ELSE c[k]]
         IN IF r.err # ""
            THEN [err |-> "failed to parse transaction", tx |-> <<>>, hit |-> FALSE, cache |-> stored]
            ELSE [err |-> "", tx |-> r.tx, hit |-> FALSE, cache |-> stored]

\* as GetTransactionCall, making room in a full cache before it stores
GetTransactionCallEvictFirst(c, idx) ==
    IF idx < 0 \/ idx >= Len(index.transactions)
    THEN [err |-> "index out of range", tx |-> <<>>, hit |-> FALSE, cache |-> c]
    ELSE IF idx \in DOMAIN c
    THEN [err |-> "", tx |-> <<c[idx]>>, hit |-> TRUE, cache |-> c]
    ELSE LET txIndex == index.transactions[idx + 1]
             r == parseTransactionAt(txIndex.FilePath, txIndex.FilePosition, txIndex.LineNumber)
             room == IF Cardinality(DOMAIN c) >= maxSize
                     THEN [k \in (DOMAIN c) \ {Min(DOMAIN c)} |-> c[k]]
                     ELSE c
         IN IF r.err # ""
            THEN [err |-> "failed to parse transaction", tx |-> <<>>, hit |-> FALSE, cache |-> c]
            ELSE [err |-> "", tx |-> r.tx, hit |-> FALSE,
                  cache |-> CacheStore(room, idx, r.tx[1])]

\* File.GetTransaction(idx) on cache c: the results and the cache it leaves
GetTransactionCall(c, idx) ==
    IF idx < 0 \/ idx >= Len(index.transactions)
    THEN [err |-> "index out of range", tx |-> <<>>, hit |-> FALSE, cache |-> c]
    ELSE IF idx \in DOMAIN c
    THEN [err |-> "", tx |-> <<c[idx]>>, hit |-> TRUE, cache |-> c]
    ELSE LET txIndex == index.transactions[idx + 1]
             r == parseTransactionAt(txIndex.FilePath, txIndex.FilePosition, txIndex.LineNumber)
         IN IF r.err # ""
            THEN [err |-> "failed to parse transaction", tx |-> <<>>, hit |-> FALSE, cache |-> c]
            ELSE [err |-> "", tx |-> r.tx, hit |-> FALSE,
                  cache |-> Evict(CacheStore(c, idx, r.tx[1]), idx)]

\* a whole GetTransaction call (the calls are serialized by the caller)
GetTransaction(idx) ==
    /\ phase = "open"
    /\ LET r == GetTransactionCall(cache, idx)
       IN /\ cache' = r.cache
          /\ ret' = [index |-> idx, err |-> r.err, tx |-> r.tx, hit |-> r.hit]
          /\ returned' = IF r.err = "" THEN returned \cup {<<idx, r.tx[1], r.hit>>} ELSE returned
    /\ UNCHANGED <<ledger, path, phase, stack, includedFiles, index, scans, skips>>
    /\ UNCHANGED matcherVars
    /\ UNCHANGED matchVars
    /\ UNCHANGED categorizerVars
    /\ UNCHANGED loaderVars
    /\ UNCHANGED threadVars

GetAnyTransaction == \E idx \in -1..TransactionCount : GetTransaction(idx)

-----------------------------------------------------------------------------
(* The ledgers the model is run on *)

H1 == <<"d1", "*", "qa", "qb">>        \* 2025-01-01 * "Payee" "Narration"
H2 == <<"d2", "!", "qb", "#t">>        \* 2025-01-02 ! "Narration" #tag
H9 == <<"d9", "*", "qa">>              \* 2025-13-45 * "Narration"
P1 == <<"SP", "Ac", "n-5", "USD">>     \*   Assets:Checking  -5.00 USD
P2 == <<"SP", "Ex">>                   \*   Expenses:Test
M1 == <<"SP", "k", "qa">>              \*   key: "value"
Blank == <<>>

Include(p) == <<"include">> \o p

MainPath == <<"m">>
PathA == <<"a">>
PathB == <<"d", "b">>

Lines(texts, term) == [i \in 1..Len(texts) |-> [text |-> texts[i], term |-> term]]

\* every line terminated by LF or CRLF; the last line may lack its terminator
WellTerminated(lines) ==
    \A i \in 1..Len(lines) : lines[i].term = "EOF" => i = Len(lines) /\ lines[i].text # <<>>

\* one file, up to MaxLines lines, each with its own length and terminator
TermLedgers ==
    {[p \in {MainPath} |-> lines] :
        lines \in {l \in SeqsOf([text : {H1, H2, P1, Blank}, term : {"LF", "CRLF", "EOF"}], 1, MaxLines) :
                       WellTerminated(l)}}

\* three files including each other; PathB may be missing
IncludeLedgers ==
    {[p \in {MainPath, PathA} \cup (IF b = <<"missing">> THEN {} ELSE {PathB}) |->
         IF p = MainPath THEN Lines(m, "LF")
         ELSE IF p = PathA THEN Lines(a, "LF")
         ELSE Lines(b, "LF")] :
        m \in SeqsOf({H1, Include(PathA), Include(PathB), Include(MainPath)}, 1, MaxIncLines),
        a \in SeqsOf({H2, Include(<<".", "m">>), Include(PathB)}, 0, MaxIncLines),
        b \in {<<"missing">>, <<>>, <<H1>>, <<Include(<<"..", "a">>)>>, <<Include(<<"b">>)>>,
               <<Include(<<"z">>)>>}}

\* one transaction: a header, two postings, a metadata line and a blank line
Block(i, term) ==
    Lines(<<IF i % 2 = 1 THEN H1 ELSE H2, P1, IF i % 2 = 1 THEN P2 ELSE M1, Blank>>, term)

\* maxSize + 2 transactions: after a header no calendar date; with the first
\* crlf blocks terminated by CRLF; the first block in an included file or not
CacheLedgers ==
    {[p \in {MainPath} \cup (IF inc THEN {PathA} ELSE {}) |->
         IF p = PathA THEN Block(1, "LF")
         ELSE Lines(<<H9>>, "LF")
              \o (IF inc THEN Lines(<<Include(PathA)>>, "LF")
                  ELSE Block(1, IF crlf >= 1 THEN "CRLF" ELSE "LF"))
              \o Concat([i \in 1..(maxSize + 1) |-> Block(i + 1, IF crlf > i THEN "CRLF" ELSE "LF")])] :
        crlf \in 0..1, inc \in BOOLEAN}

\* no matching call yet
NoMatchCall ==
    [op |-> "", err |-> "", matched |-> FALSE, suggestion |-> <<>>, suggestions |-> <<>>]

\* no Categorizer
NoCategorizer ==
    [config |-> [Enabled |-> FALSE, ConfidenceThreshold |-> 0, LearnFromEdits |-> FALSE,
                 PatternsFile |-> ""],
     matcher |-> FALSE, patterns |-> <<>>]

\* no patterns file
NoDisk == [exists |-> FALSE, version |-> "", patterns |-> <<>>, writes |-> 0]

\* a call of the Categorizer and what it returned: the operation, the
\* transaction Suggest or the suggestion and flag Feedback was given, the
\* error, Suggest's suggestion
CallResult(op, arg, accepted, err, suggestion) ==
    [op |-> op, arg |-> arg, accepted |-> accepted, err |-> err, suggestion |-> suggestion]

\* no call on the Categorizer yet
NoCategorizerCall == CallResult("", <<>>, FALSE, "", <<>>)

\* no Loader, and no call on it
NoLoader == [config |-> [DefaultConfidence |-> 0, DefaultFields |-> <<>>, StrictMode |-> FALSE]]

NoLoaderCall == [op |-> "", err |-> "", patterns |-> <<>>]

\* no goroutine is calling
NoThreads == <<>>

\* the zero RWMutex: no writer holds it, no reader holds it
NoLock == [writer |-> "", readers |-> {}, pending |-> {}]

\* no PatternMatcher
NoMatcher == [patterns |-> <<>>, EarlyExitThreshold |-> 0, MaxAlternatives |-> 0]

InitWith(ledgers, paths) ==
    /\ ledger \in ledgers
    /\ path \in paths
    /\ phase = "closed"
    /\ stack = <<>>
    /\ includedFiles = {}
    /\ index = EmptyIndex
    /\ cache = <<>>
    /\ ret = NoCall
    /\ returned = {}
    /\ scans = <<>>
    /\ skips = {}
    /\ heap = <<>>
    /\ pm = NoMatcher
    /\ pmRet = ""
    /\ txArg = <<>>
    /\ matchRet = NoMatchCall
    /\ cat = NoCategorizer
    /\ disk = NoDisk
    /\ cRet = NoCategorizerCall
    /\ loader = NoLoader
    /\ loadRet = NoLoaderCall
    /\ threads = NoThreads
    /\ mu = NoLock
    /\ serialized = TRUE

\* the lazy loader on ledgers larger than the cache
Init == InitWith(CacheLedgers, {MainPath})

Next == Open \/ ProcessLine \/ ProcessInclude \/ FileEnd \/ GetAnyTransaction

Spec == Init /\ [][Next]_vars

\* the indexer alone on ledgers of every shape
InitIndex == InitWith(TermLedgers \cup IncludeLedgers, {<<".", "m">>, <<"z">>})

NextIndex == Open \/ ProcessLine \/ ProcessInclude \/ FileEnd

SpecIndex == InitIndex /\ [][NextIndex]_vars

-----------------------------------------------------------------------------
(* The lazy loader and its cache: properties *)

CachedOrdinals == DOMAIN cache

ReturnedOrdinals == {r[1] : r \in returned}

\* the last call missed the cache and parsed its transaction
LastCallParsed == phase = "open" /\ ret.index >= 0 /\ ret.err = "" /\ ~ret.hit

\* C1: after any sequence of serialized GetTransaction calls the number of
\* cached transactions never exceeds the capacity of the cache.
C1_CacheBounded == Cardinality(CachedOrdinals) <= maxSize

\* the cache is full and more ordinals than it can hold have been served
C1_Witness ==
    /\ Cardinality(CachedOrdinals) = maxSize
    /\ Cardinality(ReturnedOrdinals) > maxSize

\* C2: GetTransaction is idempotent: any two successful calls for the same
\* ordinal return equal Transaction values, from the cache or re-parsed.
C2_Idempotent == \A p, q \in returned : p[1] = q[1] => p[2] = q[2]

\* the last call re-parsed an ordinal that an earlier call had served from the
\* cache (it was evicted in between)
C2_Witness ==
    /\ LastCallParsed
    /\ <<ret.index, ret.tx[1], TRUE>> \in returned

C4_StoredAfterMiss ==
    LastCallParsed =>
        /\ ret.index \in CachedOrdinals
        /\ cache[ret.index] = ret.tx[1]
        /\ GetTransactionCall(cache, ret.index).hit

\* C5: a GetTransaction call that fails (ordinal out of range, or the re-parse
\* fails) returns an error and no transaction, and leaves the cache and the
\* index as they were.
C5_FailureChangesNothing ==
    [][(phase = "open" /\ ret'.err # "") =>
         /\ ret'.tx = <<>>
         /\ cache' = cache
         /\ index' = index
      ]_ledgerVars

\* the last call failed in the re-parse, with transactions in the cache
C5_Witness ==
    /\ phase = "open"
    /\ ret.err = "failed to parse transaction"
    /\ cache # <<>>

-----------------------------------------------------------------------------
(* The indexer: properties *)

\* the byte offset at which line n of a file starts
TrueOffset(lines, n) == Len(Encode(SubSeq(lines, 1, n - 1)))

\* the header line of an index entry, as the file has it
HeaderLine(e) == ledger[Clean(e.FilePath)][e.LineNumber].text

\* C6: for every ledger content and index entry, FilePosition is the byte
\* offset at which the entry's header line starts in FilePath, and parsing
\* there yields the transaction of that header (same date and payee).
C6_OffsetIsLineStart ==
    \A i \in 1..Len(index.transactions) :
        LET e == index.transactions[i]
            r == parseTransactionAt(e.FilePath, e.FilePosition, e.LineNumber)
        IN /\ e.FilePosition = TrueOffset(ledger[Clean(e.FilePath)], e.LineNumber)
           /\ r.err = ""
           /\ r.tx[1].Date = e.Date
           /\ (IF r.tx[1].Payee = "" THEN r.tx[1].Narration ELSE r.tx[1].Payee) = e.Payee

NoDuplicates(s) == \A i, j \in 1..Len(s) : i # j => s[i] # s[j]

IndexedHeaders == [i \in 1..Len(index.transactions) |->
                      <<Abs(index.transactions[i].FilePath), index.transactions[i].LineNumber>>]

RECURSIVE SumOver(_, _)
SumOver(S, f) ==
    IF S = {} THEN 0
    ELSE LET x == CHOOSE y \in S : TRUE IN f[x] + SumOver(S \ {x}, f)

\* the activation records scanning the file of absolute path abs
FramesOf(abs) == {k \in 1..Len(stack) : Abs(stack[k].filePath) = abs}

\* How far index construction has got: the number of scans started, plus for
\* each of them the lines read so far, or all its lines and its end when the
\* scan is over.
Progress ==
    Len(scans) +
    SumOver(1..Len(scans),
            [i \in 1..Len(scans) |->
                IF FramesOf(scans[i]) # {}
                THEN stack[CHOOSE k \in FramesOf(scans[i]) : TRUE].lineNumber
                ELSE Len(ledger[Tail(scans[i])]) + 1])

\* every file scanned once, every line read once, every end reached once
ProgressBound == SumOver(DOMAIN ledger, [p \in DOMAIN ledger |-> Len(ledger[p]) + 2])

\* An iteration of the innermost scan loop can be taken: there is an activation
\* record, and it reads a line, ends its file, or meets an include directive
\* that it can skip, fail on or recurse into.
CanStep ==
    /\ stack # <<>>
    /\ (TopScan.ok /\ IncludeRegex(TopScan.token)) =>
           LET includePath == ResolveInclude(Last(stack).filePath, IncludeTarget(TopScan.token))
           IN \/ IsIncluded(includedFiles, IncludeKey(includePath))
              \/ ~Exists(includePath)
              \/ Len(stack) < MaxDepth

\* C7: index construction terminates whatever the include directives: every
\* step that does not end it makes progress towards a bound, and it is never
\* stuck before Open returns; each file (by absolute path) is scanned at most once, a second
\* include of a visited file is skipped without error, and no header is
\* indexed twice.
C7_IndexingTerminates ==
    /\ [](NoDuplicates(scans) /\ NoDuplicates(IndexedHeaders))
    /\ [](Progress <= ProgressBound)
    /\ [](phase = "indexing" => CanStep)
    /\ [][phase' = "indexing" => Progress' > Progress]_ledgerVars
    /\ [][skips' # skips => phase' = "indexing"]_ledgerVars

\* Open succeeded on files that include the primary file again and include
\* another file twice
C7_Witness ==
    /\ phase = "open"
    /\ Abs(path) \in skips
    /\ Cardinality(skips) >= 2
    /\ Len(index.transactions) >= 1

\* the files an include directive of file p names
IncludedBy(p) ==
    {Join(Dir(p), IncludeTarget(ledger[p][i].text)) :
        i \in {j \in 1..Len(ledger[p]) : IncludeRegex(ledger[p][j].text)}}

RECURSIVE ReachableFrom(_)
ReachableFrom(S) ==
    LET T == S \cup UNION {IncludedBy(p) : p \in S \cap DOMAIN ledger}
    IN IF T = S THEN S ELSE ReachableFrom(T)

\* the files reachable from the primary file through include directives
ReachableFiles == ReachableFrom({Clean(path)})

\* the lines of file p recognized as transaction headers
HeaderLines(p) ==
    {i \in 1..Len(ledger[p]) :
        /\ ~IncludeRegex(ledger[p][i].text)
        /\ parseTransactionIndexLine(ledger[p][i].text, p, 0, i) # <<>>}

\* C8: after Open succeeds, TransactionCount() is the number of lines
\* recognized as transaction headers in the primary file and every file
\* reachable through include directives, each file counted once.
C8_CountsHeaders ==
    phase = "open" =>
        TransactionCount = SumOver(ReachableFiles, [p \in ReachableFiles |-> Cardinality(HeaderLines(p))])

\* Open succeeded on three files with two headers, one file included twice
C8_Witness ==
    /\ phase = "open"
    /\ Cardinality(ReachableFiles) = 3
    /\ skips # {}
    /\ TransactionCount >= 2

-----------------------------------------------------------------------------
(* The pattern matcher: Pattern objects *)

\* the pointers to the Pattern objects; 0 is nil
Ptrs == 1..NumPatterns

\* Pattern.ID of the object behind each pointer
PatternIDs == <<"p1", "p2", "p3", "p4", "p5">>

\* Pattern.Priority of the patterns of the model
Priorities == {1, 2}

\* Pattern.Confidence of the patterns of the model, in hundredths
Confidences == {90, 95}

RECURSIVE GCD(_, _)
GCD(a, b) == IF b = 0 THEN a ELSE GCD(b, a % b)

\* float64(accept) / float64(total): the quotient in lowest terms, so that
\* equal quotients are equal values
Ratio(accept, total) ==
    [num |-> accept \div GCD(accept, total), den |-> total \div GCD(accept, total)]

\* a > b on quotients
RatioGT(a, b) == a.num * b.den > b.num * a.den

\* PatternStatistics of a pattern that never matched
NoStatistics ==
    [MatchCount |-> 0, AcceptCount |-> 0, RejectCount |-> 0,
     LastMatched |-> "zero", Accuracy |-> Ratio(0, 1)]

\* the payees and narrations of the model
Texts == {"", "STARBUCKS #12345", "Morning coffee", "Rent"}

\* a compiled regular expression: its source and the texts MatchString is
\* true on
Regexp(src, hits) == [nil |-> FALSE, src |-> src, hits |-> hits]

\* a nil *regexp.Regexp
NilRegexp == [nil |-> TRUE, src |-> "", hits |-> {}]

\* regexp.MustCompile(`STARBUCKS`) and regexp.MustCompile(`(?i)coffee`)
ReStarbucks == Regexp("STARBUCKS", {"STARBUCKS #12345"})
ReCoffee == Regexp("(?i)coffee", {"Morning coffee"})

\* a Pattern as the loader hands it over, with the loader's default Fields,
\* no amount bounds (nil pointers are <<>>), no required tags
NewPattern(id, priority, confidence) ==
    [ID |-> id, Name |-> id, Pattern |-> ReStarbucks.src, Regex |-> ReStarbucks,
     Category |-> "Expenses:Food:DiningOut", Fields |-> <<"any">>,
     Priority |-> priority, Confidence |-> confidence,
     MinAmount |-> <<>>, MaxAmount |-> <<>>, Tags |-> <<>>, Metadata |-> <<>>,
     Statistics |-> NoStatistics]

\* a Pattern.UpdateStatistics that counts every match as accepted
PatternUpdateStatisticsAccepting(p, accepted) ==
    LET accept == p.Statistics.AcceptCount + 1
        total  == accept + p.Statistics.RejectCount
    IN [p EXCEPT !.Statistics =
           [MatchCount  |-> p.Statistics.MatchCount + 1,
            AcceptCount |-> accept,
            RejectCount |-> p.Statistics.RejectCount,
            LastMatched |-> "now",
            Accuracy    |-> Ratio(accept, total)]]

\* Pattern.UpdateStatistics(accepted): the pattern after the call
PatternUpdateStatistics(p, accepted) ==
    LET accept == p.Statistics.AcceptCount + (IF accepted THEN 1 ELSE 0)
        reject == p.Statistics.RejectCount + (IF accepted THEN 0 ELSE 1)
        total  == accept + reject
    IN [p EXCEPT !.Statistics =
           [MatchCount  |-> p.Statistics.MatchCount + 1,
            AcceptCount |-> accept,
            RejectCount |-> reject,
            LastMatched |-> "now",
            Accuracy    |-> IF total > 0 THEN Ratio(accept, total)
                            ELSE p.Statistics.Accuracy]]

-----------------------------------------------------------------------------
(* The pattern matcher: the ordering *)

\* as Less, without the comparison of Statistics.Accuracy
LessIgnoringAccuracy(h, x, y) ==
    IF h[x].Priority # h[y].Priority THEN h[x].Priority > h[y].Priority
    ELSE IF h[x].Confidence # h[y].Confidence THEN h[x].Confidence > h[y].Confidence
    ELSE FALSE

\* the less function both sort.Slice calls pass: does x go before y
Less(h, x, y) ==
    IF h[x].Priority # h[y].Priority THEN h[x].Priority > h[y].Priority
    ELSE IF h[x].Confidence # h[y].Confidence THEN h[x].Confidence > h[y].Confidence
    ELSE RatioGT(h[x].Statistics.Accuracy, h[y].Statistics.Accuracy)

\* the length up to which sort.Slice sorts by insertion (12 in the library,
\* scaled to the pattern lists of the model)
maxInsertion == 2

RECURSIVE InsertLast(_, _, _)
\* the inner loop of the insertion sort: x moves left past every element it
\* is less than
InsertLast(h, sorted, x) ==
    IF sorted # <<>> /\ Less(h, x, Last(sorted))
    THEN Append(InsertLast(h, SubSeq(sorted, 1, Len(sorted) - 1), x), Last(sorted))
    ELSE Append(sorted, x)

RECURSIVE insertionSort(_, _)
insertionSort(h, list) ==
    IF list = <<>> THEN <<>>
    ELSE InsertLast(h, insertionSort(h, SubSeq(list, 1, Len(list) - 1)), Last(list))

\* the rearrangements of list
Rearrangements(list) ==
    {[i \in DOMAIN list |-> list[f[i]]] :
        f \in {g \in [DOMAIN list -> DOMAIN list] : Range(g) = DOMAIN list}}

IsSorted(h, list) ==
    \A i \in 1..(Len(list) - 1) : ~Less(h, list[i + 1], list[i])

\* sort.Slice(list, less): the orders the call can leave. A short list is
\* sorted by insertion; on a longer one the library promises a sorted
\* rearrangement and no more ("The sort is not guaranteed to be stable").
SortSlice(h, list) ==
    IF Len(list) <= maxInsertion THEN {insertionSort(h, list)}
    ELSE {s \in Rearrangements(list) : IsSorted(h, s)}

DefaultMatcherConfig == [EarlyExitThreshold |-> 95, MaxAlternatives |-> 3]

\* NewPatternMatcherWithConfig(patterns, config): the matchers it can return
NewPatternMatcherWithConfig(h, patterns, config) ==
    {[patterns           |-> sortedPatterns,
      EarlyExitThreshold |-> config.EarlyExitThreshold,
      MaxAlternatives    |-> config.MaxAlternatives] :
        sortedPatterns \in SortSlice(h, patterns)}

NewPatternMatcher(h, patterns) ==
    NewPatternMatcherWithConfig(h, patterns, DefaultMatcherConfig)

\* pm.sortPatterns(): the orders it can leave in pm.patterns
sortPatterns(h, patterns) == SortSlice(h, patterns)

\* the index of the first pattern with this ID, 0 if there is none
FirstWithID(h, patterns, id) ==
    IF \E i \in DOMAIN patterns : h[patterns[i]].ID = id
    THEN Min({i \in DOMAIN patterns : h[patterns[i]].ID = id})
    ELSE 0

\* as GetPattern, the first pattern of the list when none has the ID
GetPatternOrFirst(h, patterns, id) ==
    IF FirstWithID(h, patterns, id) # 0 THEN patterns[FirstWithID(h, patterns, id)]
    ELSE IF patterns = <<>> THEN 0
    ELSE patterns[1]

\* pm.GetPattern(id): the pointer, 0 for nil
GetPattern(h, patterns, id) ==
    IF FirstWithID(h, patterns, id) = 0 THEN 0
    ELSE patterns[FirstWithID(h, patterns, id)]

\* pm.Len()
PatternLen == Len(pm.patterns)

\* the UpdateStatistics calls that found their pattern so far
FeedbackCount == SumOver(DOMAIN heap, [p \in DOMAIN heap |-> heap[p].Statistics.MatchCount])

-----------------------------------------------------------------------------
(* The pattern matcher: operations *)

\* AddPattern(pattern): append, then sortPatterns. A pattern is added once.
AddPattern(pattern) ==
    /\ pattern \notin Range(pm.patterns)
    /\ \E sorted \in sortPatterns(heap, Append(pm.patterns, pattern)) :
           pm' = [pm EXCEPT !.patterns = sorted]
    /\ pmRet' = ""
    /\ UNCHANGED heap
    /\ UNCHANGED ledgerVars
    /\ UNCHANGED matchVars
    /\ UNCHANGED categorizerVars
    /\ UNCHANGED loaderVars
    /\ UNCHANGED threadVars

\* RemovePattern(id): the first pattern with this ID is cut out of the list
RemovePattern(id) ==
    LET i == FirstWithID(heap, pm.patterns, id) IN
    /\ IF i # 0
       THEN /\ pm' = [pm EXCEPT !.patterns =
                         SubSeq(pm.patterns, 1, i - 1)
                             \o SubSeq(pm.patterns, i + 1, Len(pm.patterns))]
            /\ pmRet' = "true"
       ELSE /\ pm' = pm
            /\ pmRet' = "false"
    /\ UNCHANGED heap
    /\ UNCHANGED ledgerVars
    /\ UNCHANGED matchVars
    /\ UNCHANGED categorizerVars
    /\ UNCHANGED loaderVars
    /\ UNCHANGED threadVars

\* pm.UpdateStatistics(patternID, accepted) on matcher m over heap h: the
\* outcomes [err, heap, pm] the call can have
UpdateStatisticsCall(h, m, patternID, accepted) ==
    LET pattern == GetPattern(h, m.patterns, patternID)
        updated == [h EXCEPT ![pattern] = PatternUpdateStatistics(@, accepted)]
    IN IF pattern = 0
       THEN {[err |-> "pattern not found", heap |-> h, pm |-> m]}
       ELSE {[err |-> "", heap |-> updated, pm |-> [m EXCEPT !.patterns = sorted]] :
                sorted \in sortPatterns(updated, m.patterns)}

\* UpdateStatistics(patternID, accepted): GetPattern, Pattern.UpdateStatistics,
\* sortPatterns
UpdateStatistics(patternID, accepted) ==
    /\ GetPattern(heap, pm.patterns, patternID) # 0 => FeedbackCount < MaxFeedback
    /\ \E r \in UpdateStatisticsCall(heap, pm, patternID, accepted) :
           /\ heap' = r.heap
           /\ pm' = r.pm
           /\ pmRet' = r.err
    /\ UNCHANGED ledgerVars
    /\ UNCHANGED matchVars
    /\ UNCHANGED categorizerVars
    /\ UNCHANGED loaderVars
    /\ UNCHANGED threadVars

\* the IDs the calls are made with: those of the patterns and one of no pattern
CallIDs == {PatternIDs[p] : p \in Ptrs} \cup {"p0"}

AddAnyPattern == \E pattern \in Ptrs : AddPattern(pattern)

RemoveAnyPattern == \E id \in CallIDs : RemovePattern(id)

UpdateAnyStatistics ==
    \E id \in CallIDs : \E accepted \in BOOLEAN : UpdateStatistics(id, accepted)

\* the Priority and Confidence of a pattern as one number
KeyRank(k) == k[1] * 100 + k[2]

\* the heaps of the model. Pointers are interchangeable, so the patterns are
\* laid out by their keys; the order they are handed over in is free.
Heaps ==
    {[p \in Ptrs |-> NewPattern(PatternIDs[p], k[p][1], k[p][2])] :
        k \in {l \in [Ptrs -> Priorities \X Confidences] :
                   \A p \in Ptrs : p + 1 \in Ptrs => KeyRank(l[p]) <= KeyRank(l[p + 1])}}

\* the lists handed to the constructor: every order of every set of patterns
InputLists == {l \in SeqsOf(Ptrs, 0, NumPatterns) : Cardinality(Range(l)) = Len(l)}

\* the matcher as NewPatternMatcher returns it
InitMatcher ==
    /\ ledger = <<>>
    /\ path = <<>>
    /\ phase = "closed"
    /\ stack = <<>>
    /\ includedFiles = {}
    /\ index = EmptyIndex
    /\ cache = <<>>
    /\ ret = NoCall
    /\ returned = {}
    /\ scans = <<>>
    /\ skips = {}
    /\ heap \in Heaps
    /\ \E patterns \in InputLists : pm \in NewPatternMatcher(heap, patterns)
    /\ pmRet = ""
    /\ txArg = <<>>
    /\ matchRet = NoMatchCall
    /\ cat = NoCategorizer
    /\ disk = NoDisk
    /\ cRet = NoCategorizerCall
    /\ loader = NoLoader
    /\ loadRet = NoLoaderCall
    /\ threads = NoThreads
    /\ mu = NoLock
    /\ serialized = TRUE

NextMatcher == AddAnyPattern \/ RemoveAnyPattern \/ UpdateAnyStatistics

SpecMatcher == InitMatcher /\ [][NextMatcher]_vars

-----------------------------------------------------------------------------
(* The pattern matcher: properties *)

\* x is ranked strictly before y by Priority, then Confidence, then Accuracy
RanksBefore(x, y) ==
    \/ x.Priority > y.Priority
    \/ /\ x.Priority = y.Priority
       /\ x.Confidence > y.Confidence
    \/ /\ x.Priority = y.Priority
       /\ x.Confidence = y.Confidence
       /\ x.Statistics.Accuracy.num * y.Statistics.Accuracy.den
              > y.Statistics.Accuracy.num * x.Statistics.Accuracy.den

\* C9: after construction and after every AddPattern, RemovePattern and
\* UpdateStatistics call, in any order, no adjacent pair of the matcher's
\* pattern list is out of order under Priority descending, then Confidence
\* descending, then Statistics.Accuracy descending.
C9_PatternsOrdered ==
    \A i \in 1..(Len(pm.patterns) - 1) :
        ~RanksBefore(heap[pm.patterns[i + 1]], heap[pm.patterns[i]])

\* feedback has been given, and the full list is led by a pattern whose only
\* advantage over its successor is its accuracy
C9_Witness ==
    /\ Len(pm.patterns) = NumPatterns
    /\ FeedbackCount = MaxFeedback
    /\ LET x == heap[pm.patterns[1]]
           y == heap[pm.patterns[2]]
       IN /\ x.Priority = y.Priority
          /\ x.Confidence = y.Confidence
          /\ RatioGT(x.Statistics.Accuracy, y.Statistics.Accuracy)
          /\ y.Statistics.MatchCount > 0

\* equal in Priority, Confidence and Accuracy
Tied(x, y) ==
    /\ x.Priority = y.Priority
    /\ x.Confidence = y.Confidence
    /\ x.Statistics.Accuracy = y.Statistics.Accuracy

\* the place of pattern x in list, 0 if it is not in it
Pos(list, x) ==
    IF x \in Range(list) THEN Min({i \in DOMAIN list : list[i] = x}) ELSE 0

\* C10: two patterns that are equal in Priority, Confidence and Accuracy once
\* a call has returned keep the relative order they had in the list before
\* the call.
C10_TiesKeepOrder ==
    [][\A i, j \in DOMAIN pm.patterns :
          (/\ i < j
           /\ pm.patterns[i] \in Range(pm'.patterns)
           /\ pm.patterns[j] \in Range(pm'.patterns)
           /\ Tied(heap'[pm.patterns[i]], heap'[pm.patterns[j]]))
          => Pos(pm'.patterns, pm.patterns[i]) < Pos(pm'.patterns, pm.patterns[j])]_vars

-----------------------------------------------------------------------------
(* Pattern.Matches *)

\* p.Regex.MatchString(s)
MatchString(re, s) == s \in re.hits

\* contains(slice, item)
contains(slice, item) == \E i \in DOMAIN slice : slice[i] = item

RECURSIVE maxAmountOf(_, _)
\* the loop of matchesAmount over the postings: maxAmount after it, from acc
maxAmountOf(postings, acc) ==
    IF postings = <<>> THEN acc
    ELSE IF Head(postings).Amount = <<>> THEN maxAmountOf(Tail(postings), acc)
    ELSE LET amount == Head(postings).Amount[1]
             raised == IF amount > acc THEN amount ELSE acc
         IN maxAmountOf(Tail(postings), IF amount < 0 THEN -amount ELSE raised)

\* p.matchesAmount(tx)
matchesAmount(p, t) ==
    LET maxAmount == maxAmountOf(t.Postings, 0)
    IN IF p.MinAmount # <<>> /\ maxAmount < p.MinAmount[1] THEN FALSE
       ELSE IF p.MaxAmount # <<>> /\ maxAmount > p.MaxAmount[1] THEN FALSE
       ELSE TRUE

\* p.matchesTags(tx)
matchesTags(p, t) == \A i \in DOMAIN p.Tags : contains(t.Tags, p.Tags[i])

\* as SelectsAny, without the "any" entry
SelectsAnyOnlyIfEmpty(fields) == Len(fields) = 0

\* the regex is tested against payee and narration both
SelectsAny(fields) == Len(fields) = 0 \/ contains(fields, "any")

\* the field test of Matches
matchesFields(p, t) ==
    IF SelectsAny(p.Fields)
    THEN MatchString(p.Regex, t.Payee) \/ MatchString(p.Regex, t.Narration)
    ELSE \E i \in DOMAIN p.Fields :
             \/ p.Fields[i] = "payee" /\ MatchString(p.Regex, t.Payee)
             \/ p.Fields[i] = "narration" /\ MatchString(p.Regex, t.Narration)

\* p.Matches(tx)
Matches(p, t) ==
    IF p.Regex.nil THEN FALSE
    ELSE IF (p.MinAmount # <<>> \/ p.MaxAmount # <<>>) /\ ~matchesAmount(p, t) THEN FALSE
    ELSE IF Len(p.Tags) > 0 /\ ~matchesTags(p, t) THEN FALSE
    ELSE matchesFields(p, t)

-----------------------------------------------------------------------------
(* PatternMatcher.Match and MatchAll *)

\* as calculateConfidence, without the blend
calculateConfidenceStatic(p) == Ratio(p.Confidence, 100)

\* pm.calculateConfidence(pattern): a quotient. Confidence is in hundredths.
calculateConfidence(p) ==
    IF p.Statistics.AcceptCount + p.Statistics.RejectCount > 0
    THEN Ratio(7 * p.Confidence * p.Statistics.Accuracy.den + 300 * p.Statistics.Accuracy.num,
               1000 * p.Statistics.Accuracy.den)
    ELSE Ratio(p.Confidence, 100)

\* pm.generateReason(pattern): the name, and the accuracy and the number of
\* previous matches when there are any
generateReason(p) ==
    LET totalMatches == p.Statistics.AcceptCount + p.Statistics.RejectCount
    IN [name |-> p.Name,
        history |-> IF totalMatches > 0
                    THEN <<[accuracy |-> p.Statistics.Accuracy, matches |-> totalMatches]>>
                    ELSE <<>>]

\* as EarlyExit, on the blended confidence
EarlyExitBlended(m, p) ==
    calculateConfidence(p).num * 100 >= m.EarlyExitThreshold * calculateConfidence(p).den

\* pattern.Confidence >= pm.EarlyExitThreshold
EarlyExit(m, p) == p.Confidence >= m.EarlyExitThreshold

RECURSIVE allMatchesOf(_, _, _, _)
\* the loop of Match over patterns: allMatches when it ends
allMatchesOf(h, m, patterns, t) ==
    IF patterns = <<>> THEN <<>>
    ELSE IF Matches(h[Head(patterns)], t)
         THEN IF EarlyExit(m, h[Head(patterns)]) THEN <<Head(patterns)>>
              ELSE <<Head(patterns)>> \o allMatchesOf(h, m, Tail(patterns), t)
    ELSE allMatchesOf(h, m, Tail(patterns), t)

\* as bestMatchOf, the last match instead of the first
bestMatchLast(allMatches) == allMatches[Len(allMatches)]

\* bestMatch of Match: the first pattern appended to allMatches
bestMatchOf(allMatches) == allMatches[1]

RECURSIVE alternativesUncapped(_, _, _, _, _)
\* as alternativesOf, without the test of len(alternatives)
alternativesUncapped(h, m, best, allMatches, alternatives) ==
    IF allMatches = <<>> THEN alternatives
    ELSE IF h[Head(allMatches)].ID # h[best].ID
         THEN alternativesUncapped(h, m, best, Tail(allMatches),
                  Append(alternatives,
                         [Category   |-> h[Head(allMatches)].Category,
                          Confidence |-> calculateConfidence(h[Head(allMatches)]),
                          Reason     |-> generateReason(h[Head(allMatches)])]))
    ELSE alternativesUncapped(h, m, best, Tail(allMatches), alternatives)

RECURSIVE alternativesOf(_, _, _, _, _)
\* the loop of createSuggestion over allMatches
alternativesOf(h, m, best, allMatches, alternatives) ==
    IF allMatches = <<>> THEN alternatives
    ELSE IF h[Head(allMatches)].ID # h[best].ID /\ Len(alternatives) < m.MaxAlternatives
         THEN alternativesOf(h, m, best, Tail(allMatches),
                  Append(alternatives,
                         [Category   |-> h[Head(allMatches)].Category,
                          Confidence |-> calculateConfidence(h[Head(allMatches)]),
                          Reason     |-> generateReason(h[Head(allMatches)])]))
    ELSE alternativesOf(h, m, best, Tail(allMatches), alternatives)

\* pm.createSuggestion(tx, best, allMatches); Pattern is the pointer
createSuggestion(h, m, t, best, allMatches) ==
    [Transaction  |-> t,
     Category     |-> h[best].Category,
     Confidence   |-> calculateConfidence(h[best]),
     Pattern      |-> best,
     Source       |-> "pattern",
     Reason       |-> generateReason(h[best]),
     Alternatives |-> alternativesOf(h, m, best, allMatches, <<>>),
     Created      |-> "now"]

\* pm.Match(tx): [err, suggestion], the suggestion <<>> for nil
MatchCall(h, m, t) ==
    IF t = <<>> THEN [err |-> "transaction cannot be nil", suggestion |-> <<>>]
    ELSE LET allMatches == allMatchesOf(h, m, m.patterns, t[1])
         IN IF allMatches = <<>> THEN [err |-> "", suggestion |-> <<>>]
            ELSE [err |-> "",
                  suggestion |-> <<createSuggestion(h, m, t[1], bestMatchOf(allMatches),
                                                    allMatches)>>]

\* the matching patterns of MatchAll, in the order of pm.patterns
matchesOf(h, patterns, t) ==
    SelectSeq(patterns, LAMBDA x : Matches(h[x], t))

\* the suggestion MatchAll makes of a matching pattern: no alternatives
suggestionOf(h, t, pattern) ==
    [Transaction  |-> t,
     Category     |-> h[pattern].Category,
     Confidence   |-> calculateConfidence(h[pattern]),
     Pattern      |-> pattern,
     Source       |-> "pattern",
     Reason       |-> generateReason(h[pattern]),
     Alternatives |-> <<>>,
     Created      |-> "now"]

\* as suggestionLess, never true
suggestionLessNever(a, b) == FALSE

\* the less function of MatchAll's sort.Slice
suggestionLess(a, b) == RatioGT(a.Confidence, b.Confidence)

RECURSIVE InsertSuggestion(_, _)
InsertSuggestion(sorted, x) ==
    IF sorted # <<>> /\ suggestionLess(x, Last(sorted))
    THEN Append(InsertSuggestion(SubSeq(sorted, 1, Len(sorted) - 1), x), Last(sorted))
    ELSE Append(sorted, x)

RECURSIVE insertionSortSuggestions(_)
insertionSortSuggestions(list) ==
    IF list = <<>> THEN <<>>
    ELSE InsertSuggestion(insertionSortSuggestions(SubSeq(list, 1, Len(list) - 1)), Last(list))

\* sort.Slice(suggestions, less): the orders the call can leave
SortSuggestions(list) ==
    IF Len(list) <= maxInsertion THEN {insertionSortSuggestions(list)}
    ELSE {l \in Rearrangements(list) :
              \A i \in 1..(Len(l) - 1) : ~suggestionLess(l[i + 1], l[i])}

\* pm.MatchAll(tx): the results [err, suggestions] it can return
MatchAllCall(h, m, t) ==
    IF t = <<>> THEN {[err |-> "transaction cannot be nil", suggestions |-> <<>>]}
    ELSE LET matches == matchesOf(h, m.patterns, t[1])
         IN IF Len(matches) = 0 THEN {[err |-> "", suggestions |-> <<>>]}
            ELSE {[err |-> "", suggestions |-> sorted] :
                     sorted \in SortSuggestions(
                         [i \in DOMAIN matches |-> suggestionOf(h, t[1], matches[i])])}

\* Match(tx) on the matcher
Match ==
    /\ matchRet' = [op |-> "Match", err |-> MatchCall(heap, pm, txArg).err, matched |-> FALSE,
                    suggestion |-> MatchCall(heap, pm, txArg).suggestion,
                    suggestions |-> <<>>]
    /\ UNCHANGED <<txArg, matcherVars, ledgerVars, categorizerVars, loaderVars, threadVars>>

\* MatchAll(tx) on the matcher
MatchAll ==
    /\ \E r \in MatchAllCall(heap, pm, txArg) :
           matchRet' = [op |-> "MatchAll", err |-> r.err, matched |-> FALSE,
                        suggestion |-> <<>>, suggestions |-> r.suggestions]
    /\ UNCHANGED <<txArg, matcherVars, ledgerVars, categorizerVars, loaderVars, threadVars>>

\* Pattern.Category of the object behind each pointer
PatternCategories ==
    <<"Expenses:Food:DiningOut", "Expenses:Food:Coffee", "Expenses:Food:Groceries",
      "Expenses:Shopping", "Expenses:Other">>

\* the transactions handed to the matcher: nil, one both regexes hit, one only
\* the payee regex hits
Tx(payee, narration, tags, postings) ==
    [Payee |-> payee, Narration |-> narration, Tags |-> tags, Postings |-> postings]

MatchTxs ==
    {<<>>,
     <<Tx("STARBUCKS #12345", "Morning coffee", <<>>, <<>>)>>,
     <<Tx("STARBUCKS #12345", "Rent", <<>>, <<>>)>>}

\* what the patterns of the matching model differ in: Priority, Confidence,
\* the regex (payee or narration) and whether feedback rejected them once
MatchKinds == Priorities \X Confidences \X {0, 1} \X {0, 1}

KindRank(k) == KeyRank(k) * 4 + k[3] * 2 + k[4]

MatchPattern(p, k) ==
    LET fresh == [NewPattern(PatternIDs[p], k[1], k[2]) EXCEPT
                      !.Category = PatternCategories[p],
                      !.Pattern = IF k[3] = 0 THEN ReStarbucks.src ELSE ReCoffee.src,
                      !.Regex = IF k[3] = 0 THEN ReStarbucks ELSE ReCoffee]
    IN IF k[4] = 0 THEN fresh ELSE PatternUpdateStatistics(fresh, FALSE)

\* the heaps of the matching model, the patterns laid out by their kinds
MatchHeaps ==
    {[p \in Ptrs |-> MatchPattern(p, k[p])] :
        k \in {l \in [Ptrs -> MatchKinds] :
                   \A p \in Ptrs : p + 1 \in Ptrs => KindRank(l[p]) <= KindRank(l[p + 1])}}

\* the configurations: the default threshold, one alternative or three
MatchConfigs ==
    {[EarlyExitThreshold |-> DefaultMatcherConfig.EarlyExitThreshold, MaxAlternatives |-> a] :
        a \in {1, 3}}

InitMatch ==
    /\ ledger = <<>>
    /\ path = <<>>
    /\ phase = "closed"
    /\ stack = <<>>
    /\ includedFiles = {}
    /\ index = EmptyIndex
    /\ cache = <<>>
    /\ ret = NoCall
    /\ returned = {}
    /\ scans = <<>>
    /\ skips = {}
    /\ heap \in MatchHeaps
    /\ \E config \in MatchConfigs :
           pm \in NewPatternMatcherWithConfig(heap, [p \in Ptrs |-> p], config)
    /\ pmRet = ""
    /\ txArg \in MatchTxs
    /\ matchRet = NoMatchCall
    /\ cat = NoCategorizer
    /\ disk = NoDisk
    /\ cRet = NoCategorizerCall
    /\ loader = NoLoader
    /\ loadRet = NoLoaderCall
    /\ threads = NoThreads
    /\ mu = NoLock
    /\ serialized = TRUE

NextMatch == Match \/ MatchAll

SpecMatch == InitMatch /\ [][NextMatch]_vars

-----------------------------------------------------------------------------
(* Match and MatchAll: properties *)

\* the places in the ranked list of the patterns that match the transaction
MatchingPlaces ==
    IF txArg = <<>> THEN {}
    ELSE {i \in DOMAIN pm.patterns : Matches(heap[pm.patterns[i]], txArg[1])}

\* the highest-ranked pattern that matches
FirstMatching == pm.patterns[Min(MatchingPlaces)]

\* Match returned for a non-nil transaction
MatchReturned == matchRet.op = "Match" /\ txArg # <<>>

\* Match returned a suggestion
Suggested == MatchReturned /\ matchRet.suggestion # <<>>

\* the pattern an alternative was made of: categories are one per pattern here
AltPattern(alt) == CHOOSE x \in Ptrs : heap[x].Category = alt.Category

\* C11: for a non-nil transaction Match returns (nil, nil) exactly when no
\* pattern matches; otherwise the suggestion's Pattern and Category are those
\* of the highest-ranked pattern that matches.
C11_MatchReturnsBest ==
    MatchReturned =>
        /\ matchRet.err = ""
        /\ (matchRet.suggestion = <<>>) <=> (MatchingPlaces = {})
        /\ MatchingPlaces # {} =>
               /\ matchRet.suggestion[1].Pattern = FirstMatching
               /\ matchRet.suggestion[1].Category = heap[FirstMatching].Category

\* two patterns of different priority match, below a pattern that does not
C11_Witness ==
    /\ Suggested
    /\ Min(MatchingPlaces) > 1
    /\ \E i \in MatchingPlaces :
           heap[pm.patterns[i]].Priority < heap[FirstMatching].Priority
    /\ Len(matchRet.suggestion[1].Alternatives) > 0

OtherMatches ==
    SelectSeq(pm.patterns,
              LAMBDA x : x # FirstMatching /\ Matches(heap[x], txArg[1]))

\* C13: when the highest-ranked matching pattern has static Confidence below
\* EarlyExitThreshold, the alternatives are the next matching patterns in
\* ranked order, min(k, MaxAlternatives) of the k other matching patterns.
C13_AlternativesAreNextMatches ==
    (MatchReturned /\ MatchingPlaces # {}
        /\ heap[FirstMatching].Confidence < pm.EarlyExitThreshold) =>
        LET alts == matchRet.suggestion[1].Alternatives
        IN /\ Len(alts) = Min({Len(OtherMatches), pm.MaxAlternatives})
           /\ \A j \in DOMAIN alts : AltPattern(alts[j]) = OtherMatches[j]

\* C14: a suggestion of Match has at most MaxAlternatives alternatives, each
\* of a pattern that matches the transaction and is ranked after the best
\* pattern, in ranked order, the best pattern never among them.
C14_AlternativesCapped ==
    Suggested =>
        LET alts == matchRet.suggestion[1].Alternatives
            best == matchRet.suggestion[1].Pattern
        IN /\ Len(alts) <= pm.MaxAlternatives
           /\ \A j \in DOMAIN alts :
                  /\ AltPattern(alts[j]) # best
                  /\ Pos(pm.patterns, AltPattern(alts[j])) \in MatchingPlaces
                  /\ Pos(pm.patterns, AltPattern(alts[j])) > Pos(pm.patterns, best)
           /\ \A j \in 1..(Len(alts) - 1) :
                  Pos(pm.patterns, AltPattern(alts[j]))
                      < Pos(pm.patterns, AltPattern(alts[j + 1]))

\* more patterns match than alternatives are allowed, and the cap is reached
C14_Witness ==
    /\ Suggested
    /\ Len(OtherMatches) > pm.MaxAlternatives
    /\ Len(matchRet.suggestion[1].Alternatives) = pm.MaxAlternatives

\* MatchAll returned for a non-nil transaction
MatchAllReturned == matchRet.op = "MatchAll" /\ txArg # <<>>

\* C15: for a non-nil transaction MatchAll returns one suggestion per matching
\* pattern, whatever the early-exit threshold (nil when none matches), each
\* with that pattern's blended confidence, and the blended confidence never
\* increases along the list.
C15_MatchAllReturnsEveryMatch ==
    MatchAllReturned =>
        LET all == matchRet.suggestions
        IN /\ matchRet.err = ""
           /\ Len(all) = Cardinality(MatchingPlaces)
           /\ {all[i].Pattern : i \in DOMAIN all}
                  = {pm.patterns[i] : i \in MatchingPlaces}
           /\ \A i \in DOMAIN all :
                  /\ all[i].Confidence = calculateConfidence(heap[all[i].Pattern])
                  /\ all[i].Category = heap[all[i].Pattern].Category
           /\ \A i \in 1..(Len(all) - 1) :
                  all[i].Confidence.num * all[i + 1].Confidence.den
                      >= all[i + 1].Confidence.num * all[i].Confidence.den

\* every pattern matches, the first would end Match early, and the
\* suggestions come in another order than the ranking
C15_Witness ==
    /\ MatchAllReturned
    /\ Cardinality(MatchingPlaces) = NumPatterns
    /\ heap[FirstMatching].Confidence >= pm.EarlyExitThreshold
    /\ Len(matchRet.suggestions) = NumPatterns
    /\ matchRet.suggestions[1].Pattern # FirstMatching

\* the suggestions and alternatives the last call emitted, each with the
\* pattern it was made of
Emitted ==
    {<<matchRet.suggestions[i].Confidence, matchRet.suggestions[i].Pattern>> :
        i \in DOMAIN matchRet.suggestions}
    \cup {<<matchRet.suggestion[i].Confidence, matchRet.suggestion[i].Pattern>> :
        i \in DOMAIN matchRet.suggestion}
    \cup UNION {{<<matchRet.suggestion[i].Alternatives[j].Confidence,
                   AltPattern(matchRet.suggestion[i].Alternatives[j])>> :
                    j \in DOMAIN matchRet.suggestion[i].Alternatives} :
                i \in DOMAIN matchRet.suggestion}

\* C18: the Confidence of every emitted suggestion and alternative is the
\* pattern's static Confidence when AcceptCount + RejectCount = 0, and
\* 0.7 * Confidence + 0.3 * Accuracy otherwise.
C18_ConfidenceIsBlended ==
    \A e \in Emitted :
        LET p == heap[e[2]]
            conf == e[1]
        IN IF p.Statistics.AcceptCount + p.Statistics.RejectCount = 0
           THEN conf.num * 100 = p.Confidence * conf.den
           ELSE conf.num * 1000 * p.Statistics.Accuracy.den
                    = (7 * p.Confidence * p.Statistics.Accuracy.den
                           + 300 * p.Statistics.Accuracy.num) * conf.den

\* a suggestion of a pattern with history and an alternative of one without
C18_Witness ==
    /\ Suggested
    /\ heap[matchRet.suggestion[1].Pattern].Statistics.RejectCount > 0
    /\ \E j \in DOMAIN matchRet.suggestion[1].Alternatives :
           heap[AltPattern(matchRet.suggestion[1].Alternatives[j])].Statistics.MatchCount = 0

-----------------------------------------------------------------------------
(* Pattern.Matches on one pattern and one transaction *)

\* a posting with the given amount; <<>> is a posting without one
PostingOf(amount) == [Account |-> "Ac", Amount |-> amount]

\* the postings of the transactions: none, one without amount, one or two
\* amounts of either sign and order
RulePostings ==
    {<<>>, <<PostingOf(<<>>)>>}
    \cup {<<PostingOf(<<a>>)>> : a \in {0, 5, 50, -50, 150}}
    \cup {<<PostingOf(<<a>>), PostingOf(<<b>>)>> :
             <<a, b>> \in {<<5, 150>>, <<150, 50>>, <<-150, 150>>, <<50, -150>>,
                           <<-150, 50>>, <<150, -5>>}}

RuleTxs ==
    {Tx(t[1], t[2], tags, postings) :
        t \in {<<"STARBUCKS #12345", "Morning coffee">>, <<"STARBUCKS #12345", "Rent">>,
               <<"", "Morning coffee">>, <<"", "Rent">>},
        tags \in {<<>>, <<"work">>, <<"trip", "work">>},
        postings \in RulePostings}

\* the patterns: every regex, Fields list, required tags and amount bounds
RulePatterns ==
    {[NewPattern("p1", 1, 90) EXCEPT
          !.Pattern = re.src, !.Regex = re, !.Fields = fields, !.Tags = tags,
          !.MinAmount = lo, !.MaxAmount = hi] :
        re \in {NilRegexp, ReStarbucks, ReCoffee},
        fields \in {<<>>, <<"any">>, <<"payee">>, <<"narration">>,
                    <<"payee", "narration">>, <<"payee", "any">>},
        tags \in {<<>>, <<"work">>, <<"work", "trip">>},
        lo \in {<<>>, <<10>>},
        hi \in {<<>>, <<100>>}}

InitPattern ==
    /\ ledger = <<>>
    /\ path = <<>>
    /\ phase = "closed"
    /\ stack = <<>>
    /\ includedFiles = {}
    /\ index = EmptyIndex
    /\ cache = <<>>
    /\ ret = NoCall
    /\ returned = {}
    /\ scans = <<>>
    /\ skips = {}
    /\ heap \in {<<p>> : p \in RulePatterns}
    /\ pm = NoMatcher
    /\ pmRet = ""
    /\ txArg \in {<<t>> : t \in RuleTxs}
    /\ matchRet = NoMatchCall
    /\ cat = NoCategorizer
    /\ disk = NoDisk
    /\ cRet = NoCategorizerCall
    /\ loader = NoLoader
    /\ loadRet = NoLoaderCall
    /\ threads = NoThreads
    /\ mu = NoLock
    /\ serialized = TRUE

\* heap[1].Matches(tx)
PatternMatches ==
    /\ matchRet' = [NoMatchCall EXCEPT !.op = "Matches",
                                       !.matched = Matches(heap[1], txArg[1])]
    /\ UNCHANGED <<txArg, matcherVars, ledgerVars, categorizerVars, loaderVars, threadVars>>

NextPattern == PatternMatches

SpecPattern == InitPattern /\ [][NextPattern]_vars

\* Matches returned
MatchesReturned == matchRet.op = "Matches"

Abs1(n) == IF n < 0 THEN -n ELSE n

\* some posting has an amount whose absolute value is within the bounds of p
SomeAmountInRange(p, t) ==
    \E i \in DOMAIN t.Postings :
        /\ t.Postings[i].Amount # <<>>
        /\ p.MinAmount # <<>> => p.MinAmount[1] <= Abs1(t.Postings[i].Amount[1])
        /\ p.MaxAmount # <<>> => Abs1(t.Postings[i].Amount[1]) <= p.MaxAmount[1]

\* every required tag is among the transaction's tags
HasRequiredTags(p, t) ==
    \A i \in DOMAIN p.Tags : \E j \in DOMAIN t.Tags : t.Tags[j] = p.Tags[i]

\* the regex hits a field that Fields selects
HitsSelectedField(p, t) ==
    LET both == p.Fields = <<>> \/ \E i \in DOMAIN p.Fields : p.Fields[i] = "any"
        payee == both \/ \E i \in DOMAIN p.Fields : p.Fields[i] = "payee"
        narration == both \/ \E i \in DOMAIN p.Fields : p.Fields[i] = "narration"
    IN \/ payee /\ t.Payee \in p.Regex.hits
       \/ narration /\ t.Narration \in p.Regex.hits

\* C16: when MinAmount or MaxAmount is set, the pattern matches only if some
\* posting has an amount whose absolute value is within the bounds, the amount
\* constraint passes whenever there is such a posting, and the pattern does not
\* match when there is none.
C16_AmountOfSomePosting ==
    (MatchesReturned /\ (heap[1].MinAmount # <<>> \/ heap[1].MaxAmount # <<>>)) =>
        /\ matchRet.matched => SomeAmountInRange(heap[1], txArg[1])
        /\ (/\ SomeAmountInRange(heap[1], txArg[1])
            /\ ~heap[1].Regex.nil
            /\ HasRequiredTags(heap[1], txArg[1])
            /\ HitsSelectedField(heap[1], txArg[1])) => matchRet.matched

\* C17: for a pattern with a compiled regex and no amount bounds, Matches is
\* true exactly when every required tag is in tx.Tags and the regex hits a
\* selected field; empty Fields and [any] give the same result.
C17_TagsAndFields ==
    (MatchesReturned /\ ~heap[1].Regex.nil
        /\ heap[1].MinAmount = <<>> /\ heap[1].MaxAmount = <<>>) =>
        /\ matchRet.matched <=>
               (HasRequiredTags(heap[1], txArg[1]) /\ HitsSelectedField(heap[1], txArg[1]))
        /\ Matches([heap[1] EXCEPT !.Fields = <<>>], txArg[1])
               = Matches([heap[1] EXCEPT !.Fields = <<"any">>], txArg[1])

\* a pattern on [any] with two required tags matches through the narration
C17_Witness ==
    /\ MatchesReturned
    /\ matchRet.matched
    /\ heap[1].MinAmount = <<>> /\ heap[1].MaxAmount = <<>>
    /\ heap[1].Fields = <<"any">>
    /\ Len(heap[1].Tags) = 2
    /\ txArg[1].Payee \notin heap[1].Regex.hits

-----------------------------------------------------------------------------
(* The Categorizer *)

\* the PatternYAML entry SaveFile makes of a pattern
PatternYAML(p) ==
    [ID |-> p.ID, Name |-> p.Name, Pattern |-> p.Pattern, Category |-> p.Category,
     Fields |-> p.Fields, Priority |-> p.Priority, Confidence |-> p.Confidence,
     MinAmount |-> p.MinAmount, MaxAmount |-> p.MaxAmount, Tags |-> p.Tags,
     Metadata |-> p.Metadata]

\* l.SaveFile(path, patterns) when os.WriteFile succeeds: the file after it
SaveFile(d, h, patterns) ==
    [exists   |-> TRUE,
     version  |-> "1",
     patterns |-> [i \in DOMAIN patterns |-> PatternYAML(h[patterns[i]])],
     writes   |-> d.writes + 1]

\* as LoadMatcherConfig, the default matcher configuration
LoadMatcherConfigDefault(config) == DefaultMatcherConfig

\* the matcher configuration LoadPatterns builds
LoadMatcherConfig(config) ==
    [EarlyExitThreshold |-> config.ConfidenceThreshold, MaxAlternatives |-> 3]

\* a Suggest that counts the match in the statistics of the suggested pattern
SuggestCounting(t) ==
    LET r == IF ~cat.config.Enabled \/ t = <<>> \/ ~cat.matcher
             THEN [err |-> "", suggestion |-> <<>>]
             ELSE MatchCall(heap, pm, t)
    IN /\ cRet' =
              IF ~cat.config.Enabled THEN CallResult("Suggest", t, FALSE, "", <<>>)
              ELSE IF t = <<>>
                   THEN CallResult("Suggest", t, FALSE, "transaction cannot be nil", <<>>)
              ELSE CallResult("Suggest", t, FALSE, r.err, r.suggestion)
       /\ heap' = IF r.suggestion = <<>> \/ heap[r.suggestion[1].Pattern].Statistics.MatchCount > 0
                  THEN heap
                  ELSE [heap EXCEPT ![r.suggestion[1].Pattern].Statistics.MatchCount = @ + 1]
       /\ UNCHANGED <<cat, disk, pm, pmRet, matchVars, ledgerVars, loaderVars, threadVars>>

\* a Suggest that tests the transaction before the configuration
SuggestNilFirst(t) ==
    /\ cRet' =
           IF t = <<>>
           THEN CallResult("Suggest", t, FALSE, "transaction cannot be nil", <<>>)
           ELSE IF ~cat.config.Enabled THEN CallResult("Suggest", t, FALSE, "", <<>>)
           ELSE IF ~cat.matcher THEN CallResult("Suggest", t, FALSE, "", <<>>)
           ELSE CallResult("Suggest", t, FALSE, MatchCall(heap, pm, t).err,
                           MatchCall(heap, pm, t).suggestion)
    /\ UNCHANGED <<cat, disk, matcherVars, matchVars, ledgerVars, loaderVars, threadVars>>

\* c.Suggest(tx)
Suggest(t) ==
    /\ cRet' =
           IF ~cat.config.Enabled THEN CallResult("Suggest", t, FALSE, "", <<>>)
           ELSE IF t = <<>>
                THEN CallResult("Suggest", t, FALSE, "transaction cannot be nil", <<>>)
           ELSE IF ~cat.matcher THEN CallResult("Suggest", t, FALSE, "", <<>>)
           ELSE CallResult("Suggest", t, FALSE, MatchCall(heap, pm, t).err,
                           MatchCall(heap, pm, t).suggestion)
    /\ UNCHANGED <<cat, disk, matcherVars, matchVars, ledgerVars, loaderVars, threadVars>>

\* a Feedback that undoes the statistics update when the save fails
UpdateAndSaveOrUndo(suggestion, accepted, saved) ==
    /\ GetPattern(heap, pm.patterns, heap[suggestion[1].Pattern].ID) # 0
           => FeedbackCount < MaxFeedback
    /\ \E r \in UpdateStatisticsCall(heap, pm, heap[suggestion[1].Pattern].ID, accepted) :
           IF r.err # ""
           THEN /\ cRet' = CallResult("Feedback", suggestion, accepted,
                                      "failed to update statistics", <<>>)
                /\ UNCHANGED <<heap, pm, disk>>
           ELSE IF cat.config.LearnFromEdits /\ cat.config.PatternsFile # "" /\ ~saved
           THEN /\ cRet' = CallResult("Feedback", suggestion, accepted,
                                      "failed to save patterns", <<>>)
                /\ UNCHANGED <<heap, pm, disk>>
           ELSE /\ heap' = r.heap
                /\ pm' = r.pm
                /\ disk' = IF cat.config.LearnFromEdits /\ cat.config.PatternsFile # ""
                           THEN SaveFile(disk, r.heap, cat.patterns) ELSE disk
                /\ cRet' = CallResult("Feedback", suggestion, accepted, "", <<>>)
    /\ UNCHANGED <<cat, pmRet, matchVars, ledgerVars, loaderVars, threadVars>>

\* Feedback from the statistics update on: matcher.UpdateStatistics, then the
\* save if the Categorizer learns from edits and has a patterns file. saved is
\* whether os.WriteFile succeeds if it is called.
UpdateAndSave(suggestion, accepted, saved) ==
    /\ GetPattern(heap, pm.patterns, heap[suggestion[1].Pattern].ID) # 0
           => FeedbackCount < MaxFeedback
    /\ \E r \in UpdateStatisticsCall(heap, pm, heap[suggestion[1].Pattern].ID, accepted) :
           /\ heap' = r.heap
           /\ pm' = r.pm
           /\ IF r.err # ""
              THEN /\ cRet' = CallResult("Feedback", suggestion, accepted,
                                         "failed to update statistics", <<>>)
                   /\ disk' = disk
              ELSE IF cat.config.LearnFromEdits /\ cat.config.PatternsFile # ""
              THEN IF saved
                   THEN /\ disk' = SaveFile(disk, r.heap, cat.patterns)
                        /\ cRet' = CallResult("Feedback", suggestion, accepted, "", <<>>)
                   ELSE /\ disk' = disk
                        /\ cRet' = CallResult("Feedback", suggestion, accepted,
                                              "failed to save patterns", <<>>)
              ELSE /\ disk' = disk
                   /\ cRet' = CallResult("Feedback", suggestion, accepted, "", <<>>)
    /\ UNCHANGED <<cat, pmRet, matchVars, ledgerVars, loaderVars, threadVars>>

\* a Feedback that takes a suggestion without Pattern for an error
FeedbackNeedingPattern(suggestion, accepted, saved) ==
    IF suggestion = <<>>
    THEN /\ cRet' = CallResult("Feedback", suggestion, accepted,
                               "suggestion cannot be nil", <<>>)
         /\ UNCHANGED <<cat, disk, matcherVars, matchVars, ledgerVars, loaderVars, threadVars>>
    ELSE IF suggestion[1].Pattern = 0
    THEN /\ cRet' = CallResult("Feedback", suggestion, accepted,
                               "suggestion has no pattern", <<>>)
         /\ UNCHANGED <<cat, disk, matcherVars, matchVars, ledgerVars, loaderVars, threadVars>>
    ELSE IF ~cat.matcher
    THEN /\ cRet' = CallResult("Feedback", suggestion, accepted,
                               "no matcher initialized", <<>>)
         /\ UNCHANGED <<cat, disk, matcherVars, matchVars, ledgerVars, loaderVars, threadVars>>
    ELSE UpdateAndSave(suggestion, accepted, saved)

\* c.Feedback(suggestion, accepted); the suggestion is <<>> for nil and its
\* Pattern 0 for nil
Feedback(suggestion, accepted, saved) ==
    IF suggestion = <<>>
    THEN /\ cRet' = CallResult("Feedback", suggestion, accepted,
                               "suggestion cannot be nil", <<>>)
         /\ UNCHANGED <<cat, disk, matcherVars, matchVars, ledgerVars, loaderVars, threadVars>>
    ELSE IF suggestion[1].Pattern = 0
    THEN /\ cRet' = CallResult("Feedback", suggestion, accepted, "", <<>>)
         /\ UNCHANGED <<cat, disk, matcherVars, matchVars, ledgerVars, loaderVars, threadVars>>
    ELSE IF ~cat.matcher
    THEN /\ cRet' = CallResult("Feedback", suggestion, accepted,
                               "no matcher initialized", <<>>)
         /\ UNCHANGED <<cat, disk, matcherVars, matchVars, ledgerVars, loaderVars, threadVars>>
    ELSE UpdateAndSave(suggestion, accepted, saved)

\* c.AddPattern(pattern); 0 is nil
CategorizerAddPattern(pattern) ==
    IF pattern = 0
    THEN /\ cRet' = CallResult("AddPattern", <<>>, FALSE, "pattern cannot be nil", <<>>)
         /\ UNCHANGED <<cat, disk, matcherVars, matchVars, ledgerVars, loaderVars, threadVars>>
    ELSE IF \E i \in DOMAIN cat.patterns : heap[cat.patterns[i]].ID = heap[pattern].ID
    THEN /\ cRet' = CallResult("AddPattern", <<>>, FALSE, "pattern already exists", <<>>)
         /\ UNCHANGED <<cat, disk, matcherVars, matchVars, ledgerVars, loaderVars, threadVars>>
    ELSE /\ cat' = [cat EXCEPT !.patterns = Append(@, pattern)]
         /\ IF cat.matcher
            THEN \E sorted \in sortPatterns(heap, Append(pm.patterns, pattern)) :
                     pm' = [pm EXCEPT !.patterns = sorted]
            ELSE pm' = pm
         /\ cRet' = CallResult("AddPattern", <<>>, FALSE, "", <<>>)
         /\ UNCHANGED <<heap, pmRet, disk, matchVars, ledgerVars, loaderVars, threadVars>>

\* list without its i-th element
RemoveAt(list, i) == SubSeq(list, 1, i - 1) \o SubSeq(list, i + 1, Len(list))

\* c.RemovePattern(id)
CategorizerRemovePattern(id) ==
    LET i == FirstWithID(heap, cat.patterns, id)
        j == FirstWithID(heap, pm.patterns, id)
    IN IF i = 0
       THEN /\ cRet' = CallResult("RemovePattern", <<>>, FALSE, "pattern not found", <<>>)
            /\ UNCHANGED <<cat, disk, matcherVars, matchVars, ledgerVars, loaderVars, threadVars>>
       ELSE /\ cat' = [cat EXCEPT !.patterns = RemoveAt(@, i)]
            /\ pm' = IF cat.matcher /\ j # 0
                     THEN [pm EXCEPT !.patterns = RemoveAt(@, j)] ELSE pm
            /\ cRet' = CallResult("RemovePattern", <<>>, FALSE,
                                  IF cat.matcher /\ j = 0
                                  THEN "pattern not found in matcher" ELSE "",
                                  <<>>)
            /\ UNCHANGED <<heap, pmRet, disk, matchVars, ledgerVars, loaderVars, threadVars>>

-----------------------------------------------------------------------------
(* The loader *)

\* DefaultLoaderConfig()
DefaultLoaderConfig ==
    [DefaultConfidence |-> 70, DefaultFields |-> <<"any">>, StrictMode |-> TRUE]

\* the texts the regex of a source is true on
HitsOf(src) ==
    IF src = ReStarbucks.src THEN ReStarbucks.hits
    ELSE IF src = ReCoffee.src THEN ReCoffee.hits
    ELSE {}

\* regexp.Compile(src): "[invalid(" does not compile
Compile(src) ==
    IF src = "[invalid(" THEN [err |-> "error parsing regexp", regex |-> NilRegexp]
    ELSE [err |-> "", regex |-> Regexp(src, HitsOf(src))]

\* the fields convertPattern accepts
ValidFields == {"payee", "narration", "any"}

\* as convertPattern, taking Confidence 0 for a confidence
convertPatternKeepingZero(config, y) ==
    LET fields == IF Len(y.Fields) = 0 THEN config.DefaultFields ELSE y.Fields
        confidence == y.Confidence
    IN IF y.ID = "" THEN [err |-> "missing required field: id", pattern |-> <<>>]
       ELSE IF y.Name = "" THEN [err |-> "missing required field: name", pattern |-> <<>>]
       ELSE IF y.Pattern = "" THEN [err |-> "missing required field: pattern", pattern |-> <<>>]
       ELSE IF y.Category = ""
       THEN [err |-> "missing required field: category", pattern |-> <<>>]
       ELSE IF Compile(y.Pattern).err # ""
       THEN [err |-> "invalid regex pattern", pattern |-> <<>>]
       ELSE IF confidence < 0 \/ confidence > 100
       THEN [err |-> "confidence must be between 0 and 1", pattern |-> <<>>]
       ELSE IF \E i \in DOMAIN fields : fields[i] \notin ValidFields
       THEN [err |-> "invalid field", pattern |-> <<>>]
       ELSE IF y.MinAmount # <<>> /\ y.MaxAmount # <<>> /\ y.MinAmount[1] > y.MaxAmount[1]
       THEN [err |-> "min_amount cannot be greater than max_amount", pattern |-> <<>>]
       ELSE [err |-> "",
             pattern |-> <<[ID |-> y.ID, Name |-> y.Name, Pattern |-> y.Pattern,
                            Regex |-> Compile(y.Pattern).regex, Category |-> y.Category,
                            Fields |-> fields, Priority |-> y.Priority,
                            Confidence |-> confidence,
                            MinAmount |-> y.MinAmount, MaxAmount |-> y.MaxAmount,
                            Tags |-> y.Tags, Metadata |-> y.Metadata,
                            Statistics |-> NoStatistics]>>]

\* l.convertPattern(y, index): [err, pattern], the pattern <<>> for nil.
\* Confidence is in hundredths; an entry's omitted field has the zero value.
convertPattern(config, y) ==
    LET fields == IF Len(y.Fields) = 0 THEN config.DefaultFields ELSE y.Fields
        confidence == IF y.Confidence = 0 THEN config.DefaultConfidence ELSE y.Confidence
    IN IF y.ID = "" THEN [err |-> "missing required field: id", pattern |-> <<>>]
       ELSE IF y.Name = "" THEN [err |-> "missing required field: name", pattern |-> <<>>]
       ELSE IF y.Pattern = "" THEN [err |-> "missing required field: pattern", pattern |-> <<>>]
       ELSE IF y.Category = ""
       THEN [err |-> "missing required field: category", pattern |-> <<>>]
       ELSE IF Compile(y.Pattern).err # ""
       THEN [err |-> "invalid regex pattern", pattern |-> <<>>]
       ELSE IF confidence < 0 \/ confidence > 100
       THEN [err |-> "confidence must be between 0 and 1", pattern |-> <<>>]
       ELSE IF \E i \in DOMAIN fields : fields[i] \notin ValidFields
       THEN [err |-> "invalid field", pattern |-> <<>>]
       ELSE IF y.MinAmount # <<>> /\ y.MaxAmount # <<>> /\ y.MinAmount[1] > y.MaxAmount[1]
       THEN [err |-> "min_amount cannot be greater than max_amount", pattern |-> <<>>]
       ELSE [err |-> "",
             pattern |-> <<[ID |-> y.ID, Name |-> y.Name, Pattern |-> y.Pattern,
                            Regex |-> Compile(y.Pattern).regex, Category |-> y.Category,
                            Fields |-> fields, Priority |-> y.Priority,
                            Confidence |-> confidence,
                            MinAmount |-> y.MinAmount, MaxAmount |-> y.MaxAmount,
                            Tags |-> y.Tags, Metadata |-> y.Metadata,
                            Statistics |-> NoStatistics]>>]

RECURSIVE convertAllSkipping(_, _, _)
\* as convertAll, skipping an invalid entry in strict mode too
convertAllSkipping(config, entries, patterns) ==
    IF entries = <<>> THEN [err |-> "", patterns |-> patterns]
    ELSE convertAllSkipping(config, Tail(entries),
                            patterns \o convertPattern(config, Head(entries)).pattern)

RECURSIVE convertAll(_, _, _)
\* the loop of LoadYAML over the entries of the file: [err, patterns]
convertAll(config, entries, patterns) ==
    IF entries = <<>> THEN [err |-> "", patterns |-> patterns]
    ELSE IF convertPattern(config, Head(entries)).err # ""
         THEN IF config.StrictMode
              THEN [err |-> "error in pattern", patterns |-> <<>>]
              ELSE convertAll(config, Tail(entries), patterns)
    ELSE convertAll(config, Tail(entries),
                    patterns \o convertPattern(config, Head(entries)).pattern)

\* l.LoadYAML(data) on the document d, already parsed: [err, patterns], the
\* patterns as new Pattern objects
LoadYAML(config, d) ==
    IF d.version # "" /\ d.version # "1"
    THEN [err |-> "unsupported patterns file version", patterns |-> <<>>]
    ELSE convertAll(config, d.patterns, <<>>)

\* l.LoadFile(path): no file is an error
LoadFile(config, d) ==
    IF ~d.exists THEN [err |-> "patterns file not found:", patterns |-> <<>>]
    ELSE LoadYAML(config, d)

\* isNotExist(err): the error text starts with "patterns file not found:"
isNotExist(err) == err = "patterns file not found:"

\* the pointers of n objects allocated after those of heap h
Allocated(h, n) == [i \in 1..n |-> Len(h) + i]

\* c.LoadPatterns(path) on the Categorizer k with the file d: the outcomes
\* [err, cat, pm, heap]
LoadPatternsCall(k, m, d, h) ==
    LET loaded == LoadFile(DefaultLoaderConfig, d)
        grown  == h \o loaded.patterns
        ptrs   == Allocated(h, Len(loaded.patterns))
    IN IF loaded.err # ""
       THEN {[err |-> loaded.err, cat |-> k, pm |-> m, heap |-> h]}
       ELSE {[err |-> "", cat |-> [k EXCEPT !.matcher = TRUE, !.patterns = ptrs],
              pm |-> sorted, heap |-> grown] :
                sorted \in NewPatternMatcherWithConfig(grown, ptrs,
                                                       LoadMatcherConfig(k.config))}

\* New(cfg) with the patterns file d, the caller's Pattern objects in heap h:
\* the outcomes [err, cat, pm, heap]. The error of a missing file is swallowed.
New(cfg, d, h) ==
    LET fresh == [config |-> cfg, matcher |-> FALSE, patterns |-> <<>>]
    IN IF cfg.PatternsFile = "" THEN {[err |-> "", cat |-> fresh, pm |-> NoMatcher, heap |-> h]}
       ELSE {IF r.err # "" /\ ~isNotExist(r.err)
             THEN [r EXCEPT !.err = "failed to load patterns"]
             ELSE [r EXCEPT !.err = ""] :
                r \in LoadPatternsCall(fresh, NoMatcher, d, h)}

\* the configurations: the defaults, with learning on or off and a patterns
\* file configured or not
CategorizerConfigs ==
    {[Enabled |-> TRUE, ConfidenceThreshold |-> 80, LearnFromEdits |-> l, PatternsFile |-> f] :
        l \in BOOLEAN, f \in {"", "patterns.yaml"}}

\* the heaps of the Categorizer model: patterns of both priorities that differ
\* in Priority only
CategorizerHeaps ==
    {h \in Heaps : /\ \A x \in Ptrs : h[x].Confidence = 90
                   /\ h[1].Priority # h[NumPatterns].Priority}

\* the patterns file holding the patterns of heap h
DiskOf(h) == [SaveFile(NoDisk, h, [x \in Ptrs |-> x]) EXCEPT !.writes = 0]

InitCategorizer ==
    /\ ledger = <<>>
    /\ path = <<>>
    /\ phase = "closed"
    /\ stack = <<>>
    /\ includedFiles = {}
    /\ index = EmptyIndex
    /\ cache = <<>>
    /\ ret = NoCall
    /\ returned = {}
    /\ scans = <<>>
    /\ skips = {}
    /\ \E objects \in CategorizerHeaps : \E cfg \in CategorizerConfigs :
           \E d \in {NoDisk, DiskOf(objects)} :
               \E r \in New(cfg, d, IF cfg.PatternsFile # "" /\ d.exists THEN <<>> ELSE objects) :
                   /\ r.err = ""
                   /\ heap = r.heap
                   /\ disk = d
                   /\ cat = r.cat
                   /\ pm = r.pm
    /\ pmRet = ""
    /\ txArg = <<>>
    /\ matchRet = NoMatchCall
    /\ cRet = NoCategorizerCall
    /\ loader = NoLoader
    /\ loadRet = NoLoaderCall
    /\ threads = NoThreads
    /\ mu = NoLock
    /\ serialized = TRUE

\* the transactions Suggest is called with
SuggestTxs == {<<>>, <<Tx("STARBUCKS #12345", "Morning coffee", <<>>, <<>>)>>}

\* the suggestions Feedback is called with: nil, one without Pattern, one of
\* the first and one of the last Pattern object, in the matcher or not
FeedbackSuggestions == {<<>>} \cup {<<[Pattern |-> x]>> : x \in {0, 1, NumPatterns}}

SuggestAny == \E t \in SuggestTxs : Suggest(t)

FeedbackAny ==
    \E suggestion \in FeedbackSuggestions : \E accepted \in BOOLEAN : \E saved \in BOOLEAN :
        Feedback(suggestion, accepted, saved)

\* AddPattern is called with nil and with the first Pattern object
CategorizerAddAnyPattern == \E pattern \in {0, 1} : CategorizerAddPattern(pattern)

\* RemovePattern is called with the ID of the first Pattern object and with an
\* ID no pattern has
CategorizerRemoveAnyPattern == \E id \in {PatternIDs[1], "p0"} : CategorizerRemovePattern(id)

NextCategorizer ==
    SuggestAny \/ FeedbackAny \/ CategorizerAddAnyPattern \/ CategorizerRemoveAnyPattern

SpecCategorizer == InitCategorizer /\ [][NextCategorizer]_vars

-----------------------------------------------------------------------------
(* Feedback: the statistics *)

\* the suggestion carries a Pattern
CarriesPattern(suggestion) == suggestion # <<>> /\ suggestion[1].Pattern # 0

\* the matcher holds a pattern of this ID
InMatcher(id) == \E i \in DOMAIN pm.patterns : heap[pm.patterns[i]].ID = id

\* the step counted one match of pattern x, accepted or rejected
Counted(x, accepted) ==
    /\ heap'[x].Statistics.MatchCount = heap[x].Statistics.MatchCount + 1
    /\ heap'[x].Statistics.AcceptCount =
           heap[x].Statistics.AcceptCount + (IF accepted THEN 1 ELSE 0)
    /\ heap'[x].Statistics.RejectCount =
           heap[x].Statistics.RejectCount + (IF accepted THEN 0 ELSE 1)
    /\ \A y \in Ptrs \ {x} : heap'[y] = heap[y]

\* the statistics of every pattern add up
StatisticsAddUp ==
    \A x \in Ptrs :
        LET st == heap[x].Statistics
        IN /\ st.MatchCount = st.AcceptCount + st.RejectCount
           /\ st.Accuracy = IF st.MatchCount = 0 THEN Ratio(0, 1)
                            ELSE Ratio(st.AcceptCount, st.AcceptCount + st.RejectCount)

\* C19: a Feedback that returns nil for a suggestion carrying a Pattern of the
\* matcher adds 1 to that pattern's MatchCount and 1 to its AcceptCount if
\* accepted, to its RejectCount if not, and changes no other pattern; no step
\* changes the statistics in another way; and in every state every pattern has
\* MatchCount = AcceptCount + RejectCount and Accuracy =
\* AcceptCount / (AcceptCount + RejectCount), 0 before the first feedback.
C19_FeedbackCountsOnce ==
    /\ []StatisticsAddUp
    /\ [][/\ (/\ cRet'.op = "Feedback"
               /\ cRet'.err = ""
               /\ CarriesPattern(cRet'.arg)
               /\ cat.matcher)
                  => Counted(cRet'.arg[1].Pattern, cRet'.accepted)
          /\ heap' # heap => \E x \in Ptrs : \E accepted \in BOOLEAN : Counted(x, accepted)
         ]_vars

\* Feedback has returned nil after one pattern was accepted once and rejected
\* once, and another pattern never got feedback
C19_Witness ==
    /\ cRet.op = "Feedback"
    /\ cRet.err = ""
    /\ \E x \in Ptrs : /\ heap[x].Statistics.AcceptCount = 1
                       /\ heap[x].Statistics.RejectCount = 1
                       /\ heap[x].Statistics.Accuracy = Ratio(1, 2)
    /\ \E y \in Ptrs : heap[y].Statistics.MatchCount = 0

\* C20: a Feedback on a suggestion whose Pattern has an ID the matcher does not
\* hold returns the error of the statistics update and changes nothing: no
\* pattern's statistics, not the order of the matcher's patterns, not the
\* Categorizer's list, and the patterns file is not written.
C20_NotFoundMutatesNothing ==
    [][(/\ cRet'.op = "Feedback"
        /\ CarriesPattern(cRet'.arg)
        /\ cat.matcher
        /\ ~InMatcher(heap[cRet'.arg[1].Pattern].ID))
           => /\ cRet'.err = "failed to update statistics"
              /\ heap' = heap
              /\ pm' = pm
              /\ cat' = cat
              /\ disk' = disk
      ]_vars

\* Feedback has returned the error of the statistics update from a Categorizer
\* that learns from edits, has saved its patterns file before, and whose
\* matcher still holds patterns
C20_Witness ==
    /\ cRet.op = "Feedback"
    /\ cRet.err = "failed to update statistics"
    /\ cat.config.LearnFromEdits
    /\ cat.config.PatternsFile # ""
    /\ disk.writes > 0
    /\ pm.patterns # <<>>
    /\ ~InMatcher(PatternIDs[1])

\* the Confidence 0.7 * Confidence + 0.3 * Accuracy of pattern p, or its
\* Confidence alone before any feedback, is conf
BlendOf(p, conf) ==
    IF p.Statistics.AcceptCount + p.Statistics.RejectCount = 0
    THEN conf.num * 100 = p.Confidence * conf.den
    ELSE conf.num * 1000 * p.Statistics.Accuracy.den
             = (7 * p.Confidence * p.Statistics.Accuracy.den
                    + 300 * p.Statistics.Accuracy.num) * conf.den

C22_NoPatternNoChange ==
    [][(cRet'.op = "Feedback" /\ ~CarriesPattern(cRet'.arg))
           => /\ cRet'.err = IF cRet'.arg = <<>> THEN "suggestion cannot be nil" ELSE ""
              /\ heap' = heap
              /\ pm' = pm
              /\ cat' = cat
              /\ disk' = disk
      ]_vars

\* Feedback has returned nil for a suggestion without Pattern, from a
\* Categorizer that learns from edits and holds patterns
C22_Witness ==
    /\ cRet.op = "Feedback"
    /\ cRet.arg # <<>>
    /\ cRet.arg[1].Pattern = 0
    /\ cRet.err = ""
    /\ cat.matcher
    /\ cat.patterns # <<>>
    /\ cat.config.LearnFromEdits
    /\ cat.config.PatternsFile # ""

\* C28: when categorization is enabled and a pattern of the Categorizer's
\* list matches the transaction, Suggest returns a suggestion.
C28_AddedPatternSuggests ==
    (/\ cRet.op = "Suggest"
     /\ cat.config.Enabled
     /\ cRet.arg # <<>>
     /\ \E i \in DOMAIN cat.patterns : Matches(heap[cat.patterns[i]], cRet.arg[1]))
        => cRet.suggestion # <<>>

-----------------------------------------------------------------------------
(* The loader: loading and saving documents *)

\* l.SaveFile(path, patterns) on the Loader, with every object of the heap;
\* saved is whether os.WriteFile succeeds. A file is written twice at most.
LoaderSaveFile(saved) ==
    /\ disk.writes < 2
    /\ IF saved
       THEN /\ disk' = SaveFile(disk, heap, [i \in DOMAIN heap |-> i])
            /\ loadRet' = [op |-> "SaveFile", err |-> "", patterns |-> <<>>]
       ELSE /\ disk' = disk
            /\ loadRet' = [op |-> "SaveFile", err |-> "failed to write patterns file",
                           patterns |-> <<>>]
    /\ UNCHANGED <<loader, cat, cRet, matcherVars, matchVars, ledgerVars, threadVars>>

\* l.LoadFile(path) on the Loader
LoaderLoadFile ==
    /\ loadRet' = [op       |-> "LoadFile",
                   err      |-> LoadFile(loader.config, disk).err,
                   patterns |-> LoadFile(loader.config, disk).patterns]
    /\ UNCHANGED <<loader, categorizerVars, matcherVars, matchVars, ledgerVars, threadVars>>

\* an entry of a patterns document
Entry(id, name, pattern, category, fields, confidence, lo, hi) ==
    [ID |-> id, Name |-> name, Pattern |-> pattern, Category |-> category,
     Fields |-> fields, Priority |-> 0, Confidence |-> confidence,
     MinAmount |-> lo, MaxAmount |-> hi, Tags |-> <<>>, Metadata |-> <<>>]

\* the entries of the documents: two valid ones, the first with every optional
\* field omitted, and one for each way of being invalid
LoaderEntries ==
    {Entry("valid", "Valid Pattern", "STARBUCKS", "Expenses:Valid", <<>>, 0, <<>>, <<>>),
     Entry("valid2", "Another", "(?i)coffee", "Expenses:Valid2", <<"payee">>, 90,
           <<10>>, <<100>>),
     Entry("", "No ID", "STARBUCKS", "Expenses:Test", <<>>, 0, <<>>, <<>>),
     Entry("noname", "", "STARBUCKS", "Expenses:Test", <<>>, 0, <<>>, <<>>),
     Entry("nopattern", "No Pattern", "", "Expenses:Test", <<>>, 0, <<>>, <<>>),
     Entry("nocategory", "No Category", "STARBUCKS", "", <<>>, 0, <<>>, <<>>),
     Entry("invalid", "Invalid Pattern", "[invalid(", "Expenses:Invalid", <<>>, 0, <<>>, <<>>),
     Entry("high", "Test", "STARBUCKS", "Expenses:Test", <<>>, 150, <<>>, <<>>),
     Entry("negative", "Test", "STARBUCKS", "Expenses:Test", <<>>, -50, <<>>, <<>>),
     Entry("field", "Test", "STARBUCKS", "Expenses:Test", <<"invalid_field">>, 0, <<>>, <<>>),
     Entry("amounts", "Test", "STARBUCKS", "Expenses:Test", <<>>, 0, <<100>>, <<50>>)}

\* the patterns files: none, and every document of up to MaxEntries entries
\* with no version, version 1 or an unsupported version
LoaderDisks ==
    {NoDisk} \cup
    {[exists |-> TRUE, version |-> v, patterns |-> entries, writes |-> 0] :
        v \in {"", "1", "2"}, entries \in SeqsOf(LoaderEntries, 0, MaxEntries)}

\* the Pattern objects handed to SaveFile: all pass validation. One has
\* Priority 0 and Confidence 0, one an empty Fields list, one every optional field.
SavedPatterns ==
    {NewPattern("a", 1, 90),
     NewPattern("b", 0, 0),
     [NewPattern("c", 2, 100) EXCEPT !.Fields = <<>>],
     [NewPattern("d", 1, 70) EXCEPT !.Pattern = ReCoffee.src, !.Regex = ReCoffee,
                                     !.Fields = <<"payee", "narration">>,
                                     !.MinAmount = <<10>>, !.MaxAmount = <<100>>,
                                     !.Tags = <<"work">>, !.Metadata = <<"source=bank">>]}

LoaderHeaps == SeqsOf(SavedPatterns, 1, 2)

\* a Loader in strict or lenient mode, and either a patterns file to load or
\* Pattern objects to save
InitLoader ==
    /\ ledger = <<>>
    /\ path = <<>>
    /\ phase = "closed"
    /\ stack = <<>>
    /\ includedFiles = {}
    /\ index = EmptyIndex
    /\ cache = <<>>
    /\ ret = NoCall
    /\ returned = {}
    /\ scans = <<>>
    /\ skips = {}
    /\ \/ heap = <<>> /\ disk \in LoaderDisks
       \/ heap \in LoaderHeaps /\ disk = NoDisk
    /\ pm = NoMatcher
    /\ pmRet = ""
    /\ txArg = <<>>
    /\ matchRet = NoMatchCall
    /\ cat = NoCategorizer
    /\ cRet = NoCategorizerCall
    /\ loader \in {[config |-> [DefaultLoaderConfig EXCEPT !.StrictMode = strict]] :
                      strict \in BOOLEAN}
    /\ loadRet = NoLoaderCall
    /\ threads = NoThreads
    /\ mu = NoLock
    /\ serialized = TRUE

LoaderSaveAnyFile == \E saved \in BOOLEAN : LoaderSaveFile(saved)

NextLoader == LoaderSaveAnyFile \/ LoaderLoadFile

SpecLoader == InitLoader /\ [][NextLoader]_vars

\* the entry passes every validation rule
Passes(y) ==
    /\ y.ID # ""
    /\ y.Name # ""
    /\ y.Pattern # ""
    /\ y.Category # ""
    /\ y.Pattern # "[invalid("
    /\ y.Confidence >= 0
    /\ y.Confidence <= 100
    /\ \A i \in DOMAIN y.Fields : y.Fields[i] \in {"payee", "narration", "any"}
    /\ (y.MinAmount # <<>> /\ y.MaxAmount # <<>>) => y.MinAmount[1] <= y.MaxAmount[1]

\* the fields SaveFile writes and LoadFile reads are the same in p and q
SameFields(p, q) ==
    /\ p.ID = q.ID
    /\ p.Name = q.Name
    /\ p.Pattern = q.Pattern
    /\ p.Category = q.Category
    /\ p.Fields = q.Fields
    /\ p.Priority = q.Priority
    /\ p.Confidence = q.Confidence
    /\ p.MinAmount = q.MinAmount
    /\ p.MaxAmount = q.MaxAmount
    /\ p.Tags = q.Tags
    /\ p.Metadata = q.Metadata

\* C24: LoadFile on the file SaveFile wrote from a list of valid patterns
\* returns no error and as many patterns in the same order, each equal to the
\* original in ID, Name, regex source, Category, Fields, Priority,
\* Confidence, MinAmount, MaxAmount, Tags and Metadata.
C24_RoundTrip ==
    (/\ loadRet.op = "LoadFile"
     /\ disk.writes > 0
     /\ \A i \in DOMAIN heap : Passes(PatternYAML(heap[i])))
        => /\ loadRet.err = ""
           /\ Len(loadRet.patterns) = Len(heap)
           /\ \A i \in DOMAIN heap : SameFields(loadRet.patterns[i], heap[i])

\* LoadFile has returned from a document of a supported version
Loaded ==
    /\ loadRet.op = "LoadFile"
    /\ disk.exists
    /\ disk.version \in {"", "1"}

\* C25: on a document with an entry that fails validation, a strict load
\* returns an error and no pattern; a lenient load, and any load of a
\* document without such an entry, returns no error and one pattern for each
\* entry that passes, in the order of the entries.
C25_StrictOrLenient ==
    Loaded =>
        IF loader.config.StrictMode /\ \E i \in DOMAIN disk.patterns : ~Passes(disk.patterns[i])
        THEN loadRet.err # "" /\ loadRet.patterns = <<>>
        ELSE /\ loadRet.err = ""
             /\ [i \in DOMAIN loadRet.patterns |->
                    <<loadRet.patterns[i].ID, loadRet.patterns[i].Pattern>>]
                  = [i \in DOMAIN SelectSeq(disk.patterns, Passes) |->
                        <<SelectSeq(disk.patterns, Passes)[i].ID,
                          SelectSeq(disk.patterns, Passes)[i].Pattern>>]

\* a lenient load of three entries, the second with a regex that does not
\* compile, has returned the first and the third
C25_Witness ==
    /\ Loaded
    /\ ~loader.config.StrictMode
    /\ Len(disk.patterns) = 3
    /\ disk.patterns[2].Pattern = "[invalid("
    /\ loadRet.err = ""
    /\ Len(loadRet.patterns) = 2
    /\ loadRet.patterns[1].ID = "valid"
    /\ loadRet.patterns[2].ID = "valid2"

\* C26: every pattern a load returns has a non-empty ID, Name, regex source
\* and Category, a compiled regex, a non-empty Fields list of payee,
\* narration and any, a Confidence within [0, 1] and MinAmount <= MaxAmount
\* when it has both; it comes from an entry of the document that passes
\* every rule, with Fields [any] and Confidence 0.7 where the entry omits them.
C26_LoadedPatternsValid ==
    Loaded =>
        \A i \in DOMAIN loadRet.patterns :
            LET p == loadRet.patterns[i]
            IN /\ p.ID # "" /\ p.Name # "" /\ p.Pattern # "" /\ p.Category # ""
               /\ ~p.Regex.nil
               /\ p.Regex.src = p.Pattern
               /\ p.Fields # <<>>
               /\ \A j \in DOMAIN p.Fields : p.Fields[j] \in {"payee", "narration", "any"}
               /\ p.Confidence >= 0 /\ p.Confidence <= 100
               /\ (p.MinAmount # <<>> /\ p.MaxAmount # <<>>)
                      => p.MinAmount[1] <= p.MaxAmount[1]
               /\ \E j \in DOMAIN disk.patterns :
                      LET y == disk.patterns[j]
                      IN /\ Passes(y)
                         /\ y.ID = p.ID /\ y.Name = p.Name /\ y.Pattern = p.Pattern
                         /\ y.Category = p.Category
                         /\ p.Fields = IF y.Fields = <<>> THEN <<"any">> ELSE y.Fields
                         /\ p.Confidence = IF y.Confidence = 0 THEN 70 ELSE y.Confidence

\* a load has returned a pattern with the default Fields and Confidence
\* from a document that also holds an entry with Confidence 1.5
C26_Witness ==
    /\ Loaded
    /\ loadRet.err = ""
    /\ \E i \in DOMAIN loadRet.patterns :
           /\ loadRet.patterns[i].Confidence = 70
           /\ loadRet.patterns[i].Fields = <<"any">>
    /\ \E j \in DOMAIN disk.patterns : disk.patterns[j].Confidence = 150

-----------------------------------------------------------------------------
(* The Categorizer: construction, loading and reloading *)

\* c.SuggestAll(tx): the suggestion of the result is the list of suggestions,
\* <<>> for nil
SuggestAll(t) ==
    /\ IF ~cat.config.Enabled THEN cRet' = CallResult("SuggestAll", t, FALSE, "", <<>>)
       ELSE IF t = <<>>
       THEN cRet' = CallResult("SuggestAll", t, FALSE, "transaction cannot be nil", <<>>)
       ELSE IF ~cat.matcher THEN cRet' = CallResult("SuggestAll", t, FALSE, "", <<>>)
       ELSE \E r \in MatchAllCall(heap, pm, t) :
                cRet' = CallResult("SuggestAll", t, FALSE, r.err, r.suggestions)
    /\ UNCHANGED <<cat, disk, matcherVars, matchVars, ledgerVars, loaderVars, threadVars>>

\* c.SetEnabled(enabled)
SetEnabled(enabled) ==
    /\ cat' = [cat EXCEPT !.config.Enabled = enabled]
    /\ cRet' = CallResult("SetEnabled", <<>>, FALSE, "", <<>>)
    /\ UNCHANGED <<disk, matcherVars, matchVars, ledgerVars, loaderVars, threadVars>>

\* the name of the patterns file
PatternsFileName == "patterns.yaml"

\* the file at a path: the patterns file, and no file at any other path
FileAt(p) == IF p = PatternsFileName THEN disk ELSE NoDisk

\* c.LoadPatterns(path), returning as operation op. No more than MaxObjects
\* Pattern objects are allocated.
LoadPatternsAs(op, p) ==
    /\ Len(heap) + Len(FileAt(p).patterns) <= MaxObjects
    /\ \E r \in LoadPatternsCall(cat, pm, FileAt(p), heap) :
           /\ cat' = r.cat
           /\ pm' = r.pm
           /\ heap' = r.heap
           /\ cRet' = CallResult(op, <<p>>, FALSE, r.err, <<>>)
    /\ UNCHANGED <<pmRet, disk, matchVars, ledgerVars, loaderVars, threadVars>>

\* c.LoadPatterns(path)
CategorizerLoadPatterns(p) == LoadPatternsAs("LoadPatterns", p)

\* c.ReloadPatterns()
ReloadPatterns ==
    IF cat.config.PatternsFile = ""
    THEN /\ cRet' = CallResult("ReloadPatterns", <<>>, FALSE, "no patterns file configured", <<>>)
         /\ UNCHANGED <<cat, disk, matcherVars, matchVars, ledgerVars, loaderVars, threadVars>>
    ELSE LoadPatternsAs("ReloadPatterns", cat.config.PatternsFile)

\* New(cfg): the Categorizer, or an error and no Categorizer; the call records
\* cfg
CategorizerNew(cfg) ==
    /\ cRet.op = ""
    /\ \E r \in New(cfg, disk, heap) :
           /\ cRet' = CallResult("New", <<cfg>>, FALSE, r.err, <<>>)
           /\ IF r.err = ""
              THEN cat' = r.cat /\ pm' = r.pm /\ heap' = r.heap
              ELSE UNCHANGED <<cat, pm, heap>>
    /\ UNCHANGED <<pmRet, disk, matchVars, ledgerVars, loaderVars, threadVars>>

\* New has returned a Categorizer
Constructed == cRet.op # "" /\ (cRet.op = "New" => cRet.err = "")

\* a patterns file of version 1
DocOf(entries) == [exists |-> TRUE, version |-> "1", patterns |-> entries, writes |-> 0]

\* the entry of a pattern on STARBUCKS with Confidence 0.9
EntryOf(id, category) == Entry(id, id, ReStarbucks.src, category, <<"any">>, 90, <<>>, <<>>)

\* the patterns files: none, one of two patterns, the second of higher
\* Priority and with a Confidence below the threshold, one of two patterns of
\* the same ID, the second of higher Priority, one with an entry that fails
\* validation
ReloadDisks ==
    {NoDisk,
     DocOf(<<EntryOf("p1", "Expenses:Food:DiningOut"),
             [EntryOf("p2", "Expenses:Food:Coffee") EXCEPT !.Priority = 1, !.Confidence = 70]>>),
     DocOf(<<EntryOf("p1", "Expenses:Food:DiningOut"),
             [EntryOf("p1", "Expenses:Food:Coffee") EXCEPT !.Priority = 1]>>),
     DocOf(<<EntryOf("p1", "Expenses:Food:DiningOut"),
             Entry("invalid", "Invalid Pattern", "[invalid(", "Expenses:Invalid",
                   <<>>, 0, <<>>, <<>>)>>)}

\* the caller's Pattern object, for AddPattern
ReloadObjects == <<NewPattern("x", 2, 90)>>

\* no Categorizer yet; a patterns file or none
InitReload ==
    /\ ledger = <<>>
    /\ path = <<>>
    /\ phase = "closed"
    /\ stack = <<>>
    /\ includedFiles = {}
    /\ index = EmptyIndex
    /\ cache = <<>>
    /\ ret = NoCall
    /\ returned = {}
    /\ scans = <<>>
    /\ skips = {}
    /\ heap = ReloadObjects
    /\ disk \in ReloadDisks
    /\ pm = NoMatcher
    /\ pmRet = ""
    /\ txArg = <<>>
    /\ matchRet = NoMatchCall
    /\ cat = NoCategorizer
    /\ cRet = NoCategorizerCall
    /\ loader = NoLoader
    /\ loadRet = NoLoaderCall
    /\ threads = NoThreads
    /\ mu = NoLock
    /\ serialized = TRUE

NewAny == \E cfg \in CategorizerConfigs : CategorizerNew(cfg)

LoadAnyPatterns ==
    Constructed /\ \E p \in {PatternsFileName, "missing.yaml"} : CategorizerLoadPatterns(p)

ReloadAnyPatterns == Constructed /\ ReloadPatterns

\* Feedback on the suggestion of the matcher's first pattern
ReloadFeedback ==
    /\ Constructed
    /\ pm.patterns # <<>>
    /\ \E accepted \in BOOLEAN : \E saved \in BOOLEAN :
           Feedback(<<[Pattern |-> pm.patterns[1]]>>, accepted, saved)

ReloadSuggest == Constructed /\ \E t \in SuggestTxs : Suggest(t)

ReloadSuggestAll == Constructed /\ \E t \in SuggestTxs : SuggestAll(t)

ReloadSetEnabled == Constructed /\ \E enabled \in BOOLEAN : SetEnabled(enabled)

\* AddPattern with the caller's Pattern object
ReloadAddPattern == Constructed /\ CategorizerAddPattern(1)

\* RemovePattern with the ID of a pattern of the files and with the ID of the
\* caller's Pattern object
ReloadRemovePattern ==
    Constructed /\ \E id \in {"p1", ReloadObjects[1].ID} : CategorizerRemovePattern(id)

NextReload ==
    \/ NewAny
    \/ LoadAnyPatterns
    \/ ReloadAnyPatterns
    \/ ReloadFeedback
    \/ ReloadSuggest
    \/ ReloadSuggestAll
    \/ ReloadSetEnabled
    \/ ReloadAddPattern

SpecReload == InitReload /\ [][NextReload]_vars

\* the Categorizer under the calls that change its pattern set
NextRemove ==
    \/ NewAny
    \/ LoadAnyPatterns
    \/ ReloadFeedback
    \/ ReloadAddPattern
    \/ ReloadRemovePattern

SpecRemove == InitReload /\ [][NextRemove]_vars

\* the statistics a reload is to keep, of the object behind a pointer
Learned(h, x) ==
    <<h[x].Statistics.AcceptCount, h[x].Statistics.RejectCount, h[x].Statistics.Accuracy>>

\* C23: with learn-from-edits on and a patterns file configured, a
\* ReloadPatterns right after a successful Feedback yields, for every pattern
\* held before, a pattern of the same ID with the same AcceptCount,
\* RejectCount and Accuracy, and so the same blended confidence.
C23_ReloadKeepsLearning ==
    [][(/\ cRet.op = "Feedback"
        /\ cRet.err = ""
        /\ cat.config.LearnFromEdits
        /\ cat.config.PatternsFile # ""
        /\ cRet'.op = "ReloadPatterns"
        /\ cRet'.err = "")
           => \A i \in DOMAIN cat.patterns :
                  \E j \in DOMAIN cat'.patterns :
                      /\ heap'[cat'.patterns[j]].ID = heap[cat.patterns[i]].ID
                      /\ Learned(heap', cat'.patterns[j]) = Learned(heap, cat.patterns[i])
                      /\ calculateConfidence(heap'[cat'.patterns[j]])
                             = calculateConfidence(heap[cat.patterns[i]])]_vars

\* C27: no two patterns of the Categorizer's list, and no two of its
\* matcher's list, have the same ID.
C27_UniqueIDs ==
    /\ \A i, j \in DOMAIN cat.patterns :
           i # j => heap[cat.patterns[i]].ID # heap[cat.patterns[j]].ID
    /\ \A i, j \in DOMAIN pm.patterns :
           i # j => heap[pm.patterns[i]].ID # heap[pm.patterns[j]].ID

\* the patterns file New reads, <<>> when none is configured
NewFile(config) == IF config.PatternsFile = "" THEN <<>> ELSE <<disk>>

\* the file a load that returned read: the configured patterns file for
\* ReloadPatterns, the file at the path for LoadPatterns
LoadedFile(call, config) ==
    IF call.op = "ReloadPatterns" THEN NewFile(config)
    ELSE IF call.arg = <<PatternsFileName>> THEN <<disk>>
    ELSE <<NoDisk>>

\* C29: after a LoadPatterns or ReloadPatterns without error the Categorizer
\* holds new Pattern objects with the IDs of the file's entries, in order,
\* and none it held before; the matcher holds the same objects, with
\* EarlyExitThreshold the configured confidence threshold and MaxAlternatives
\* 3. With no file at the path both return an error, while New returns a
\* Categorizer without patterns and no error.
C29_LoadReplaces ==
    [][/\ (cRet'.op \in {"LoadPatterns", "ReloadPatterns"} /\ cRet'.err = "")
              => /\ LoadedFile(cRet', cat.config) # <<>>
                 /\ LoadedFile(cRet', cat.config)[1].exists
                 /\ \A i \in DOMAIN cat'.patterns : cat'.patterns[i] \notin DOMAIN heap
                 /\ [i \in DOMAIN cat'.patterns |-> heap'[cat'.patterns[i]].ID]
                        = [i \in DOMAIN LoadedFile(cRet', cat.config)[1].patterns |->
                              LoadedFile(cRet', cat.config)[1].patterns[i].ID]
                 /\ Len(pm'.patterns) = Len(cat'.patterns)
                 /\ {pm'.patterns[i] : i \in DOMAIN pm'.patterns}
                        = {cat'.patterns[i] : i \in DOMAIN cat'.patterns}
                 /\ cat'.matcher
                 /\ pm'.EarlyExitThreshold = cat.config.ConfidenceThreshold
                 /\ pm'.MaxAlternatives = 3
       /\ (/\ cRet'.op \in {"LoadPatterns", "ReloadPatterns"}
           /\ \A f \in {LoadedFile(cRet', cat.config)} : f = <<>> \/ ~f[1].exists)
              => cRet'.err # "" /\ cat' = cat /\ pm' = pm
       /\ (cRet'.op = "New" /\ NewFile(cRet'.arg[1]) # <<>> /\ ~disk.exists)
              => /\ cRet'.err = ""
                 /\ cat'.config = cRet'.arg[1]
                 /\ cat'.patterns = <<>>
                 /\ pm'.patterns = <<>>
       /\ (/\ cRet'.op = "New"
           /\ NewFile(cRet'.arg[1]) # <<>>
           /\ disk.exists
           /\ \E i \in DOMAIN disk.patterns : ~Passes(disk.patterns[i]))
              => cRet'.err # ""]_vars

\* a ReloadPatterns has returned without error and the Categorizer holds
\* patterns, but not the caller's pattern, which had been added and had
\* received feedback
C29_Witness ==
    /\ cRet.op = "ReloadPatterns"
    /\ cRet.err = ""
    /\ heap[1].Statistics.MatchCount > 0
    /\ cat.patterns # <<>>
    /\ \A i \in DOMAIN cat.patterns : heap[cat.patterns[i]].ID # heap[1].ID
    /\ \A i \in DOMAIN pm.patterns : heap[pm.patterns[i]].ID # heap[1].ID

\* Suggest or SuggestAll has returned
SuggestReturned == cRet.op \in {"Suggest", "SuggestAll"}

\* C30 as stated: Suggest and SuggestAll return (nil, nil) whenever
\* categorization is disabled, and an error whenever the transaction is nil.
C30_DisabledOrNil ==
    SuggestReturned =>
        /\ ~cat.config.Enabled => cRet.err = "" /\ cRet.suggestion = <<>>
        /\ cRet.arg = <<>> => cRet.err # ""

\* C30: Suggest and SuggestAll return (nil, nil) whenever categorization is
\* disabled, and an error whenever the transaction is nil and categorization
\* is enabled.
C30_DisabledThenNil ==
    SuggestReturned =>
        /\ ~cat.config.Enabled => cRet.err = "" /\ cRet.suggestion = <<>>
        /\ (cat.config.Enabled /\ cRet.arg = <<>>) => cRet.err # ""

\* Suggest has returned (nil, nil) for a nil transaction on a Categorizer
\* that is disabled and holds patterns
C30_Witness ==
    /\ cRet.op = "Suggest"
    /\ ~cat.config.Enabled
    /\ cat.matcher
    /\ pm.patterns # <<>>
    /\ cRet.arg = <<>>
    /\ cRet.err = ""
    /\ cRet.suggestion = <<>>

-----------------------------------------------------------------------------
(* Match: the confidence of the alternatives *)

\* C33: in every suggestion Match returns, no alternative has a confidence
\* higher than the suggestion's own.
C33_AlternativesNotHigher ==
    (matchRet.op = "Match" /\ matchRet.suggestion # <<>>)
        => \A i \in DOMAIN matchRet.suggestion[1].Alternatives :
               ~RatioGT(matchRet.suggestion[1].Alternatives[i].Confidence,
                        matchRet.suggestion[1].Confidence)

-----------------------------------------------------------------------------
(* Pattern.Matches: the amount the bounds are compared with *)

\* the absolute values of the posting amounts of t
Magnitudes(t) ==
    {Abs1(t.Postings[i].Amount[1]) : i \in {j \in DOMAIN t.Postings : t.Postings[j].Amount # <<>>}}

\* the largest of them
LargestMagnitude(t) == CHOOSE m \in Magnitudes(t) : \A n \in Magnitudes(t) : n <= m

\* C34: for a transaction with a posting that has an amount, and a pattern
\* whose regex, fields and tags let it match, Matches is true exactly when
\* the largest absolute posting amount m satisfies MinAmount <= m and
\* m <= MaxAmount for the bounds that are set.
C34_LargestMagnitude ==
    (/\ MatchesReturned
     /\ Magnitudes(txArg[1]) # {}
     /\ ~heap[1].Regex.nil
     /\ HasRequiredTags(heap[1], txArg[1])
     /\ HitsSelectedField(heap[1], txArg[1]))
        => matchRet.matched =
               (/\ heap[1].MinAmount # <<>> => heap[1].MinAmount[1] <= LargestMagnitude(txArg[1])
                /\ heap[1].MaxAmount # <<>> => LargestMagnitude(txArg[1]) <= heap[1].MaxAmount[1])

-----------------------------------------------------------------------------
(* The indexer: the order of the index *)

\* the file and line of each index entry, in index order
IndexedLines ==
    [i \in 1..Len(index.transactions) |->
        <<Clean(index.transactions[i].FilePath), index.transactions[i].LineNumber>>]

RECURSIVE DepthFirst(_, _, _)
\* the headers met from line i of file p on in a depth-first walk that enters
\* a file at the first include directive naming it and passes over a
\* directive naming a file already entered: their order, and the files
\* entered after it
DepthFirst(p, i, entered) ==
    IF i > Len(ledger[p]) THEN [order |-> <<>>, entered |-> entered]
    ELSE IF IncludeRegex(ledger[p][i].text)
    THEN LET q == Join(Dir(p), IncludeTarget(ledger[p][i].text))
         IN IF q \in entered \/ q \notin DOMAIN ledger
            THEN DepthFirst(p, i + 1, entered)
            ELSE LET sub  == DepthFirst(q, 1, entered \cup {q})
                     rest == DepthFirst(p, i + 1, sub.entered)
                 IN [order |-> sub.order \o rest.order, entered |-> rest.entered]
    ELSE LET rest == DepthFirst(p, i + 1, entered)
         IN [order   |-> (IF i \in HeaderLines(p) THEN <<<<p, i>>>> ELSE <<>>) \o rest.order,
             entered |-> rest.entered]

-----------------------------------------------------------------------------
(* The cache: which ordinals it holds *)

\* the n largest elements of S, all of S when it has no more than n
Largest(S, n) == {x \in S : Cardinality({y \in S : y > x}) < n}

-----------------------------------------------------------------------------
(* The Categorizer: the matcher and the backing list *)

\* C37: whenever the Categorizer has a matcher, the matcher holds exactly
\* the patterns of the backing list, so that PatternCount() is the matcher's
\* length, and RemovePattern never fails after it has removed the pattern
\* from the backing list.
C37_MatcherHoldsBackingList ==
    /\ cat.matcher =>
           /\ Len(pm.patterns) = Len(cat.patterns)
           /\ {pm.patterns[i] : i \in DOMAIN pm.patterns}
                  = {cat.patterns[i] : i \in DOMAIN cat.patterns}
    /\ cRet.op = "RemovePattern" => cRet.err # "pattern not found in matcher"

-----------------------------------------------------------------------------
(* The Categorizer: matching reads only *)

\* what the claim compares of two suggestions
Advice(suggestion) ==
    IF suggestion = <<>> THEN <<>>
    ELSE <<suggestion[1].Category, suggestion[1].Confidence, suggestion[1].Alternatives>>

\* C38: Suggest and SuggestAll, and the Match and MatchAll they call, change
\* no Pattern object, neither the matcher's list nor the backing list, nor
\* the file; the statistics of a Pattern object change only in a Feedback;
\* and a Suggest right after a Suggest on the same transaction returns the
\* same category, confidence and alternatives.
C38_MatchingReadsOnly ==
    [][/\ cRet'.op \in {"Suggest", "SuggestAll"}
              => heap' = heap /\ pm' = pm /\ cat' = cat /\ disk' = disk
       /\ \A x \in DOMAIN heap :
              heap'[x].Statistics # heap[x].Statistics => cRet'.op = "Feedback"
       /\ (cRet.op = "Suggest" /\ cRet'.op = "Suggest" /\ cRet'.arg = cRet.arg)
              => cRet'.err = cRet.err /\ Advice(cRet'.suggestion) = Advice(cRet.suggestion)]_vars

\* Suggest has returned a suggestion with an alternative, from a pattern
\* that has received feedback
C38_Witness ==
    /\ cRet.op = "Suggest"
    /\ cRet.suggestion # <<>>
    /\ cRet.suggestion[1].Alternatives # <<>>
    /\ heap[cRet.suggestion[1].Pattern].Statistics.MatchCount > 0

-----------------------------------------------------------------------------
(* GetTransaction called from several goroutines.  The cache has no lock   *)
(* (parser.go:35-39): a call is the sequence of its accesses to the map,   *)
(* and the calls of different goroutines interleave between them unless    *)
(* the callers serialize them.                                             *)

Goroutines == {"g1", "g2"}

\* a goroutine that is not inside a call
IdleCall == [pc |-> "idle", index |-> -2, tx |-> <<>>, minIdx |-> -2, returned |-> FALSE]

Idle(g) == threads[g].pc = "idle"

AllIdle == \A g \in Goroutines : Idle(g)

\* the goroutine's call returns
ReturnFrom(g) == [threads EXCEPT ![g].pc = "idle", ![g].returned = TRUE]

\* as OverCapacity, one entry late
OverCapacityByOne(c) == Cardinality(DOMAIN c) > maxSize + 1

\* len(f.cache.transactions) > f.cache.maxSize
OverCapacity(c) == Cardinality(DOMAIN c) > maxSize

\* delete(f.cache.transactions, minIdx)
CacheDelete(c, minIdx) == [k \in (DOMAIN c) \ {minIdx} |-> c[k]]

RaceFrame ==
    /\ UNCHANGED <<ledger, path, phase, stack, includedFiles, index, ret, returned, scans, skips>>
    /\ UNCHANGED <<mu, serialized>>
    /\ UNCHANGED matcherVars
    /\ UNCHANGED matchVars
    /\ UNCHANGED categorizerVars
    /\ UNCHANGED loaderVars

\* goroutine g calls f.GetTransaction(idx)
RaceCall(g, idx) ==
    /\ phase = "open"
    /\ Idle(g)
    /\ serialized => AllIdle
    /\ threads' = [threads EXCEPT ![g] = [IdleCall EXCEPT !.pc = "lookup", !.index = idx]]
    /\ UNCHANGED cache
    /\ RaceFrame

\* the range check, the lookup in the cache and, on a miss, the parse
RaceLookup(g) ==
    /\ threads[g].pc = "lookup"
    /\ LET idx == threads[g].index
       IN IF idx < 0 \/ idx >= Len(index.transactions)
          THEN threads' = ReturnFrom(g)
          ELSE IF idx \in DOMAIN cache
          THEN threads' = [ReturnFrom(g) EXCEPT ![g].tx = <<cache[idx]>>]
          ELSE LET txIndex == index.transactions[idx + 1]
                   r == parseTransactionAt(txIndex.FilePath, txIndex.FilePosition,
                                           txIndex.LineNumber)
               IN IF r.err # ""
                  THEN threads' = ReturnFrom(g)
                  ELSE threads' = [threads EXCEPT ![g].pc = "store", ![g].tx = r.tx]
    /\ UNCHANGED cache
    /\ RaceFrame

\* f.cache.transactions[index] = tx
RaceStore(g) ==
    /\ threads[g].pc = "store"
    /\ cache' = CacheStore(cache, threads[g].index, threads[g].tx[1])
    /\ threads' = [threads EXCEPT ![g].pc = "size"]
    /\ RaceFrame

\* the size check
RaceSize(g) ==
    /\ threads[g].pc = "size"
    /\ threads' = IF OverCapacity(cache)
                  THEN [threads EXCEPT ![g].pc = "search"]
                  ELSE ReturnFrom(g)
    /\ UNCHANGED cache
    /\ RaceFrame

\* the loop that finds the smallest cached ordinal
RaceSearch(g) ==
    /\ threads[g].pc = "search"
    /\ threads' = [threads EXCEPT ![g].pc = "delete",
                                  ![g].minIdx = MinIdx(cache, threads[g].index)]
    /\ UNCHANGED cache
    /\ RaceFrame

\* the delete, and the return
RaceDelete(g) ==
    /\ threads[g].pc = "delete"
    /\ cache' = CacheDelete(cache, threads[g].minIdx)
    /\ threads' = ReturnFrom(g)
    /\ RaceFrame

\* Two goroutines inside the map at once, one of them writing, is a data
\* race: the runtime may stop the program ("fatal error: concurrent map
\* writes") or let the accesses go through in some order.
RaceFatal ==
    /\ \E g, h \in Goroutines :
          /\ g # h
          /\ threads[g].pc \in {"store", "delete"}
          /\ threads[h].pc \in {"lookup", "store", "search", "delete"}
    /\ threads' = [g \in Goroutines |-> [threads[g] EXCEPT !.pc = "fatal"]]
    /\ UNCHANGED cache
    /\ RaceFrame

RaceLedgers ==
    {[p \in {MainPath} \cup (IF inc THEN {PathA} ELSE {}) |->
         IF p = PathA THEN Block(1, "LF")
         ELSE Lines(<<H9>>, "LF")
              \o (IF inc THEN Lines(<<Include(PathA)>>, "LF") ELSE Block(1, "LF"))
              \o Concat([i \in 1..(maxSize + 1) |-> Block(i + 1, "LF")])] :
        inc \in BOOLEAN}

InitRace ==
    /\ ledger \in RaceLedgers
    /\ path = MainPath
    /\ phase = "closed"
    /\ stack = <<>>
    /\ includedFiles = {}
    /\ index = EmptyIndex
    /\ cache = <<>>
    /\ ret = NoCall
    /\ returned = {}
    /\ scans = <<>>
    /\ skips = {}
    /\ heap = <<>>
    /\ pm = NoMatcher
    /\ pmRet = ""
    /\ txArg = <<>>
    /\ matchRet = NoMatchCall
    /\ cat = NoCategorizer
    /\ disk = NoDisk
    /\ cRet = NoCategorizerCall
    /\ loader = NoLoader
    /\ loadRet = NoLoaderCall
    /\ threads = [g \in Goroutines |-> IdleCall]
    /\ mu = NoLock
    /\ serialized \in BOOLEAN

RaceAnyCall == \E g \in Goroutines : \E idx \in -1..TransactionCount : RaceCall(g, idx)

RaceAnyLookup == \E g \in Goroutines : RaceLookup(g)

RaceAnyStore == \E g \in Goroutines : RaceStore(g)

RaceAnySize == \E g \in Goroutines : RaceSize(g)

RaceAnySearch == \E g \in Goroutines : RaceSearch(g)

RaceAnyDelete == \E g \in Goroutines : RaceDelete(g)

NextRace ==
    \/ Open
    \/ ProcessLine
    \/ ProcessInclude
    \/ FileEnd
    \/ RaceAnyCall
    \/ RaceAnyLookup
    \/ RaceAnyStore
    \/ RaceAnySize
    \/ RaceAnySearch
    \/ RaceAnyDelete
    \/ RaceFatal

SpecRace == InitRace /\ [][NextRace]_vars

\* C32: the external serialization is necessary.  When the calls of
\* GetTransaction are serialized by their callers, the cache never holds more
\* than its capacity once the calls have returned; when two calls may
\* interleave between the insert, the size check, the search for the smallest
\* ordinal and the delete, a state with both calls returned and the cache
\* over its capacity is reachable (C32_Witness).
C32_SerializedStaysBounded ==
    (serialized /\ AllIdle) => Cardinality(DOMAIN cache) <= maxSize

\* two interleaved calls have both returned and left the cache over its capacity
C32_Witness ==
    /\ ~serialized
    /\ \A g \in Goroutines : Idle(g) /\ threads[g].returned
    /\ Cardinality(DOMAIN cache) > maxSize

-----------------------------------------------------------------------------
(* The Categorizer called from several goroutines.  A call is the part     *)
(* before it takes c.mu, the acquisition, the statements under the lock    *)
(* (the writers' in two steps, so that the state between two assignments   *)
(* is a state) and the deferred release.                                   *)

\* a goroutine that is not inside a call
IdleGoroutine ==
    [op |-> "", pc |-> "idle", loaded |-> <<>>, stamp |-> 0, err |-> "", out |-> <<>>,
     calls |-> 0]

\* the operations that assign to c.patterns, c.matcher or a pattern's statistics
WriteOps == {"LoadPatterns", "AddPattern", "RemovePattern", "Feedback"}

ReadOps == {"Suggest", "SuggestAll", "GetPattern", "GetPatterns", "SavePatterns"}

\* as LockKind, with Feedback under the read lock
LockKindSharedFeedback(op) == IF op \in WriteOps \ {"Feedback"} THEN "Lock" ELSE "RLock"

\* what the operation calls on c.mu
LockKind(op) == IF op \in WriteOps THEN "Lock" ELSE "RLock"

\* the arguments of the calls
LockTx == <<Tx("STARBUCKS #12345", "Morning coffee", <<>>, <<>>)>>
LockID == "p1"
LockObject == 1

\* the order of the file reads and of the returns of Feedback
Clock == CHOOSE n \in {threads[g].stamp : g \in Goroutines} :
             \A g \in Goroutines : threads[g].stamp <= n

CallsMade == SumOver(Goroutines, [g \in Goroutines |-> threads[g].calls])

\* the Pattern objects read from the file and not installed yet
Unallocated ==
    SumOver(Goroutines,
            [g \in Goroutines |->
                IF threads[g].op = "LoadPatterns" /\ threads[g].pc \in {"acquire", "blocked", "first"}
                THEN Len(threads[g].loaded.patterns) ELSE 0])

\* g holds c.mu
Holds(g) == mu.writer = g \/ g \in mu.readers

\* g is between its acquisition of c.mu and its release
InSection(g) == threads[g].pc \in {"first", "second", "release"}

LockFrame ==
    /\ UNCHANGED ledgerVars
    /\ UNCHANGED matchVars
    /\ UNCHANGED loaderVars
    /\ UNCHANGED <<pmRet, cRet, serialized>>

\* The call begins: what the operation does before it takes the lock.
\* Suggest and SuggestAll return at once when categorization is disabled;
\* LoadPatterns reads and converts the file, and returns its error.
BeginCall(g, op) ==
    /\ threads[g].pc = "idle"
    /\ CallsMade < MaxCalls
    /\ LET call == [IdleGoroutine EXCEPT !.op = op, !.pc = "acquire",
                                         !.calls = threads[g].calls + 1]
           loaded == LoadFile(DefaultLoaderConfig, FileAt(cat.config.PatternsFile))
       IN IF op \in {"Suggest", "SuggestAll"} /\ ~cat.config.Enabled
          THEN threads' = [threads EXCEPT ![g] = [call EXCEPT !.pc = "idle"]]
          ELSE IF op = "LoadPatterns"
          THEN /\ Len(heap) + Unallocated + Len(disk.patterns) <= MaxObjects
               /\ threads' = [threads EXCEPT ![g] =
                      IF loaded.err # ""
                      THEN [call EXCEPT !.pc = "idle", !.err = loaded.err]
                      ELSE [call EXCEPT !.loaded = loaded, !.stamp = Clock + 1]]
          ELSE threads' = [threads EXCEPT ![g] = call]
    /\ UNCHANGED <<mu, matcherVars, cat, disk>>
    /\ LockFrame

\* c.mu.RLock(): blocks while a writer holds the lock or waits for it
MuRLock(g) ==
    /\ threads[g].pc = "acquire"
    /\ LockKind(threads[g].op) = "RLock"
    /\ mu.writer = "" /\ mu.pending = {}
    /\ mu' = [mu EXCEPT !.readers = @ \cup {g}]
    /\ threads' = [threads EXCEPT ![g].pc = "first"]
    /\ UNCHANGED <<matcherVars, cat, disk>>
    /\ LockFrame

\* c.mu.Lock(): takes the free lock, or blocks and keeps new readers out
MuLock(g) ==
    /\ threads[g].pc = "acquire"
    /\ LockKind(threads[g].op) = "Lock"
    /\ IF mu.writer = "" /\ mu.readers = {}
       THEN /\ mu' = [mu EXCEPT !.writer = g]
            /\ threads' = [threads EXCEPT ![g].pc = "first"]
       ELSE /\ mu' = [mu EXCEPT !.pending = @ \cup {g}]
            /\ threads' = [threads EXCEPT ![g].pc = "blocked"]
    /\ UNCHANGED <<matcherVars, cat, disk>>
    /\ LockFrame

\* a goroutine blocked in Lock gets the lock once it is free
MuGranted(g) ==
    /\ threads[g].pc = "blocked"
    /\ mu.writer = "" /\ mu.readers = {}
    /\ mu' = [mu EXCEPT !.writer = g, !.pending = @ \ {g}]
    /\ threads' = [threads EXCEPT ![g].pc = "first"]
    /\ UNCHANGED <<matcherVars, cat, disk>>
    /\ LockFrame

\* as Returning, with the unlock as the last statement of the function
\* instead of a deferred call: a return with an error skips it
ReturningUnlockLast(err) ==
    [cat |-> cat, pm |-> pm, heap |-> heap, disk |-> disk,
     pc |-> IF err # "" THEN "idle" ELSE "release", err |-> err, out |-> <<>>]

\* what a step under the lock leaves when it changes nothing and returns: the
\* deferred unlock is still to run
Returning(err) ==
    [cat |-> cat, pm |-> pm, heap |-> heap, disk |-> disk, pc |-> "release", err |-> err,
     out |-> <<>>]

\* c.loader.SaveFile(path, c.patterns); os.WriteFile succeeds or fails
Saved ==
    {[Returning("") EXCEPT !.disk = SaveFile(disk, heap, cat.patterns)],
     Returning("failed to save patterns")}

\* the first statements under the lock: the whole section of a reader, the
\* first assignment of a writer
FirstOutcomes(g) ==
    LET op == threads[g].op
        loaded == threads[g].loaded.patterns
        i == FirstWithID(heap, cat.patterns, LockID)
    IN CASE op = "Suggest" ->
              {[Returning("") EXCEPT !.out =
                   IF ~cat.matcher THEN <<>> ELSE MatchCall(heap, pm, LockTx).suggestion]}
         [] op = "SuggestAll" ->
              IF ~cat.matcher THEN {Returning("")}
              ELSE {[Returning(r.err) EXCEPT !.out = r.suggestions] :
                       r \in MatchAllCall(heap, pm, LockTx)}
         [] op = "GetPattern" ->
              IF i = 0 THEN {Returning("pattern not found")}
              ELSE {[Returning("") EXCEPT !.out = <<cat.patterns[i]>>]}
         [] op = "GetPatterns" -> {[Returning("") EXCEPT !.out = cat.patterns]}
         [] op = "SavePatterns" -> Saved
         [] op = "LoadPatterns" ->
              {[Returning("") EXCEPT !.heap = heap \o loaded,
                                     !.cat.patterns = Allocated(heap, Len(loaded)),
                                     !.pc = "second"]}
         [] op = "AddPattern" ->
              IF \E k \in DOMAIN cat.patterns : heap[cat.patterns[k]].ID = heap[LockObject].ID
              THEN {Returning("pattern already exists")}
              ELSE {[Returning("") EXCEPT !.cat.patterns = Append(@, LockObject),
                                          !.pc = "second"]}
         [] op = "RemovePattern" ->
              IF i = 0 THEN {Returning("pattern not found")}
              ELSE {[Returning("") EXCEPT !.cat.patterns = RemoveAt(@, i), !.pc = "second"]}
         [] op = "Feedback" ->
              IF ~cat.matcher THEN {Returning("no matcher initialized")}
              ELSE {IF r.err # "" THEN Returning("failed to update statistics")
                    ELSE [Returning("") EXCEPT
                             !.heap = r.heap, !.pm = r.pm,
                             !.pc = IF cat.config.LearnFromEdits /\ cat.config.PatternsFile # ""
                                    THEN "second" ELSE "release"] :
                       r \in UpdateStatisticsCall(heap, pm, LockID, TRUE)}

\* the rest of a writer's section: the matcher follows c.patterns, Feedback
\* saves
SecondOutcomes(g) ==
    LET op == threads[g].op
        j == FirstWithID(heap, pm.patterns, LockID)
    IN CASE op = "LoadPatterns" ->
              {[Returning("") EXCEPT !.pm = m, !.cat.matcher = TRUE] :
                  m \in NewPatternMatcherWithConfig(heap, cat.patterns,
                                                    LoadMatcherConfig(cat.config))}
         [] op = "AddPattern" ->
              IF ~cat.matcher THEN {Returning("")}
              ELSE {[Returning("") EXCEPT !.pm.patterns = sorted] :
                       sorted \in sortPatterns(heap, Append(pm.patterns, LockObject))}
         [] op = "RemovePattern" ->
              IF ~cat.matcher THEN {Returning("")}
              ELSE IF j = 0 THEN {Returning("pattern not found in matcher")}
              ELSE {[Returning("") EXCEPT !.pm.patterns = RemoveAt(@, j)]}
         [] op = "Feedback" -> Saved

\* one step under the lock
Section(g, pc, outcomes) ==
    /\ threads[g].pc = pc
    /\ \E r \in outcomes :
          /\ cat' = r.cat
          /\ pm' = r.pm
          /\ heap' = r.heap
          /\ disk' = r.disk
          /\ threads' = [threads EXCEPT ![g].pc = r.pc, ![g].err = r.err, ![g].out = r.out]
    /\ UNCHANGED mu
    /\ LockFrame

SectionFirst(g) == Section(g, "first", FirstOutcomes(g))

SectionSecond(g) == Section(g, "second", SecondOutcomes(g))

\* the deferred c.mu.Unlock() or c.mu.RUnlock(), and the return, which hands
\* the results to the caller
MuRelease(g) ==
    /\ threads[g].pc = "release"
    /\ mu' = [mu EXCEPT !.writer = IF @ = g THEN "" ELSE @, !.readers = @ \ {g}]
    /\ threads' = [threads EXCEPT ![g].pc = "idle", ![g].err = "", ![g].out = <<>>,
                                  ![g].stamp = IF threads[g].op = "Feedback" /\ threads[g].err = ""
                                               THEN Clock + 1 ELSE @]
    /\ UNCHANGED <<matcherVars, cat, disk>>
    /\ LockFrame

\* the patterns files: one pattern, and the same with a second pattern
LockDisks ==
    {DocOf(<<EntryOf("p1", "Expenses:Food:DiningOut")>>),
     DocOf(<<EntryOf("p1", "Expenses:Food:DiningOut"),
             EntryOf("p2", "Expenses:Food:Coffee")>>)}

\* the user edits the patterns file
EditFile ==
    /\ \E d \in LockDisks :
          /\ d.patterns # disk.patterns
          /\ disk' = [d EXCEPT !.writes = disk.writes]
    /\ UNCHANGED <<threads, mu, matcherVars, cat>>
    /\ LockFrame

LockConfig ==
    [Enabled |-> TRUE, ConfidenceThreshold |-> 80, LearnFromEdits |-> TRUE,
     PatternsFile |-> PatternsFileName]

\* the Categorizer New(cfg) returned, with the one-pattern file loaded; no
\* goroutine has called yet
InitLock ==
    /\ ledger = <<>>
    /\ path = <<>>
    /\ phase = "closed"
    /\ stack = <<>>
    /\ includedFiles = {}
    /\ index = EmptyIndex
    /\ cache = <<>>
    /\ ret = NoCall
    /\ returned = {}
    /\ scans = <<>>
    /\ skips = {}
    /\ disk = DocOf(<<EntryOf("p1", "Expenses:Food:DiningOut")>>)
    /\ \E r \in New(LockConfig, disk, ReloadObjects) :
          /\ r.err = ""
          /\ cat = r.cat
          /\ pm = r.pm
          /\ heap = r.heap
    /\ pmRet = ""
    /\ txArg = <<>>
    /\ matchRet = NoMatchCall
    /\ cRet = NoCategorizerCall
    /\ loader = NoLoader
    /\ loadRet = NoLoaderCall
    /\ threads = [g \in Goroutines |-> IdleGoroutine]
    /\ mu = NoLock
    /\ serialized = TRUE

BeginAnyCall == \E g \in Goroutines : \E op \in ReadOps \cup WriteOps : BeginCall(g, op)

\* the steps of goroutine g inside a call
Run(g) == MuRLock(g) \/ MuLock(g) \/ MuGranted(g) \/ SectionFirst(g) \/ SectionSecond(g)
              \/ MuRelease(g)

AnyRLock == \E g \in Goroutines : MuRLock(g)

AnyLock == \E g \in Goroutines : MuLock(g)

AnyGranted == \E g \in Goroutines : MuGranted(g)

AnySectionFirst == \E g \in Goroutines : SectionFirst(g)

AnySectionSecond == \E g \in Goroutines : SectionSecond(g)

AnyRelease == \E g \in Goroutines : MuRelease(g)

NextLock ==
    \/ BeginAnyCall
    \/ AnyRLock
    \/ AnyLock
    \/ AnyGranted
    \/ AnySectionFirst
    \/ AnySectionSecond
    \/ AnyRelease
    \/ EditFile

SpecLock == InitLock /\ [][NextLock]_vars

\* the goroutines alone, the patterns file edited by nobody else
NextCalls ==
    \/ BeginAnyCall
    \/ AnyRLock
    \/ AnyLock
    \/ AnyGranted
    \/ AnySectionFirst
    \/ AnySectionSecond
    \/ AnyRelease

\* the scheduler runs every goroutine that can take a step
SpecLockFair == InitLock /\ [][NextCalls]_vars /\ \A g \in Goroutines : WF_vars(Run(g))

\* C31: mutual exclusion.  While a LoadPatterns, AddPattern, RemovePattern or
\* Feedback is between taking c.mu and releasing it, it holds the write lock
\* and no other operation, reader or writer, is between its own acquisition
\* and release; Feedback's statistics update, re-sort and save are one such
\* section, so a save never sees the patterns in the middle of a mutation.
C31_WritersExclusive ==
    \A g \in Goroutines :
        (InSection(g) /\ threads[g].op \in WriteOps) =>
            /\ mu.writer = g
            /\ \A h \in Goroutines \ {g} : ~InSection(h)

\* a writer is between its two assignments while another call waits for the lock
C31_Witness ==
    \E g, h \in Goroutines :
        /\ threads[g].op = "Feedback" /\ threads[g].pc = "second"
        /\ threads[h].op \in {"Suggest", "SavePatterns"} /\ threads[h].pc = "acquire"

\* g's last call was op, and it has returned without error
Completed(g, op) == threads[g].op = op /\ threads[g].pc = "idle" /\ threads[g].stamp > 0

\* the patterns of c.patterns as a file holds them, without statistics
Installed == [i \in DOMAIN cat.patterns |-> [heap[cat.patterns[i]] EXCEPT !.Statistics = NoStatistics]]

\* C39: LoadPatterns is atomic with respect to the other writers.  When a
\* LoadPatterns call A read the file before another LoadPatterns call B read
\* it and both have returned, the installed patterns are those B read; and a
\* Feedback that returned after A read the file is still counted in the
\* installed patterns once A has returned.
C39_LoadPatternsAtomic ==
    \A a, b \in Goroutines :
        (Completed(a, "LoadPatterns") /\ threads[a].stamp < threads[b].stamp) =>
            /\ Completed(b, "LoadPatterns") => Installed = threads[b].loaded.patterns
            /\ Completed(b, "Feedback") =>
                   \E i \in DOMAIN cat.patterns :
                       /\ heap[cat.patterns[i]].ID = LockID
                       /\ heap[cat.patterns[i]].Statistics.MatchCount > 0

\* C40: the Categorizer never deadlocks.  A goroutine outside a call holds
\* no lock (every path releases it), a goroutine that is about to acquire the
\* lock, or blocked in it, does not hold it, and under a fair scheduler every
\* call that has started returns.
C40_NoDeadlock ==
    /\ [](\A g \in Goroutines :
              threads[g].pc \in {"idle", "acquire", "blocked"} => ~Holds(g))
    /\ \A g \in Goroutines : (threads[g].pc # "idle") ~> (threads[g].pc = "idle")

\* a call is blocked in Lock behind a call that will return with an error
C40_Witness ==
    \E g, h \in Goroutines :
        /\ threads[g].pc = "blocked"
        /\ threads[h].pc = "release" /\ threads[h].err # ""

====
